---- MODULE Spec2Model ----
(***************************************************************************)
(* Model of the model-promotion scripts of zenml-enterprise-mlops:         *)
(*   scripts/promote_model.py, scripts/rollback_model.py,                  *)
(*   scripts/promote_cross_workspace.py, src/pipelines/import_model.py.    *)
(* Metric values are floats in the source; here they are integers in       *)
(* thousandths (0.7 is 700), which keeps every comparison exact.           *)
(***************************************************************************)
EXTENDS Integers, Sequences, FiniteSets, TLC

VARIABLES
    gate,       \* one call of validate_promotion: its inputs and its result
    stage,      \* registry: stage of each model version of the one model name
    run_metadata, \* registry: the metric entries of each version's run_metadata
    rollback_event, \* registry: whether a version's metadata has a rollback_event
    nver,       \* registry: number of model versions that exist
    last,       \* the script run that finished last: its inputs and outcome
    manifest,   \* the manifest.json under the export path of the latest export
    imp,        \* the import_model_pipeline run in progress
    artifacts,  \* registry: names of the artifacts linked to each version
    bucket,     \* exchange bucket: blobs under the export path of the latest export
    hook,       \* one call of a governance hook: its inputs and its result
    cmp,        \* one champion/challenger comparison: its inputs and results
    docker,     \* one call of get_docker_settings: its arguments and its result
    race        \* two concurrent promote_model runs: inputs, position, outcome

vars == <<gate, stage, run_metadata, rollback_event, nver, last, manifest, imp,
          artifacts, bucket, hook, cmp, docker, race>>

----------------------------------------------------------------------------
(* Bounds                                                                  *)

\* metric values tried by the promotion gate, in thousandths
MetricValues == {0, 699, 700, 799, 800, 1000}

\* largest number of model versions the registry holds
MaxVersions == 2

\* largest number of rows of the batch the two models predict on
MaxSamples == 2

\* metrics maps a training run's evaluate_model step logs on its new version
\* (of the metrics it logs, the three the promotion scripts read)
TrainedMetrics ==
    {[m \in {"accuracy", "precision", "recall"} |-> 850],
     [m \in {"accuracy", "precision", "recall"} |->
        IF m = "accuracy" THEN 750 ELSE 850],
     [m \in {"accuracy", "precision", "recall"} |->
        IF m = "recall" THEN 699 ELSE 850]}

\* the elements of a sequence
Range(q) == {q[i] : i \in 1..Len(q)}

----------------------------------------------------------------------------
(* scripts/promote_model.py : validate_promotion                           *)

\* required_metrics, in list order
required_metrics == <<"accuracy", "precision", "recall">>

RequiredSet == {required_metrics[i] : i \in 1..Len(required_metrics)}

\* every metrics map over the required keys, each key present or absent
MetricsMaps == UNION {[D -> MetricValues] : D \in SUBSET RequiredSet}

\* stages the --to-stage option accepts
ToStages == {"staging", "production", "archived"}

StagingMin == 700

ProductionMin == 800

\* requirements.get(to_stage, {}) : a dict, empty for a stage without entry
swapped_requirements(to_stage) ==
    IF to_stage = "staging" THEN [m \in RequiredSet |-> ProductionMin]
    ELSE IF to_stage = "production" THEN [m \in RequiredSet |-> StagingMin]
    ELSE [m \in {} |-> 0]

requirements(to_stage) ==
    IF to_stage = "staging" THEN [m \in RequiredSet |-> StagingMin]
    ELSE IF to_stage = "production" THEN [m \in RequiredSet |-> ProductionMin]
    ELSE [m \in {} |-> 0]

\* the keys of a requirements dict in insertion order
RequirementKeys(req) ==
    SelectSeq(required_metrics, LAMBDA m : m \in DOMAIN req)

\* [m for m in required_metrics if m not in metrics]
missing_metrics(metrics) ==
    SelectSeq(required_metrics, LAMBDA m : m \notin DOMAIN metrics)

\* the loop over stage_requirements.items(): every metric below its minimum
first_failure_only(metrics, req) ==
    LET all == SelectSeq(RequirementKeys(req), LAMBDA m : metrics[m] < req[m])
    IN  IF all = <<>> THEN <<>> ELSE <<all[1]>>

threshold_failures(metrics, req) ==
    SelectSeq(RequirementKeys(req), LAMBDA m : metrics[m] < req[m])

\* validate_promotion: "ok" is the return of True, otherwise the ValueError
\* raised; "missing" and "failures" are the lists the error message prints,
\* "evaluated" the metrics whose threshold comparison was executed.
no_missing_check(metrics, to_stage) ==
    LET req == requirements(to_stage)
        keys == SelectSeq(RequirementKeys(req), LAMBDA m : m \in DOMAIN metrics)
        failures == SelectSeq(keys, LAMBDA m : metrics[m] < req[m])
    IN  [ok |-> failures = <<>>,
         error |-> IF failures = <<>> THEN "none" ELSE "threshold",
         missing |-> <<>>, failures |-> failures,
         evaluated |-> {keys[i] : i \in 1..Len(keys)}]

validate_promotion(metrics, to_stage) ==
    LET missing == missing_metrics(metrics)
        req == requirements(to_stage)
    IN  IF missing # <<>>
        THEN [ok |-> FALSE, error |-> "missing", missing |-> missing,
              failures |-> <<>>, evaluated |-> {}]
        ELSE LET failures == threshold_failures(metrics, req)
             IN  [ok |-> failures = <<>>,
                  error |-> IF failures = <<>> THEN "none" ELSE "threshold",
                  missing |-> <<>>, failures |-> failures,
                  evaluated |-> DOMAIN req]

NotCalled == [ok |-> FALSE, error |-> "not_called", missing |-> <<>>,
              failures |-> <<>>, evaluated |-> {}]

----------------------------------------------------------------------------
(* tests/test_promotion_logic.py : check_metrics_meet_requirements         *)

\* PROMOTION_REQUIREMENTS.get(stage, {}), stage being the to_stage here
PROMOTION_REQUIREMENTS(to_stage) ==
    IF to_stage = "staging" THEN [m \in RequiredSet |-> 700]
    ELSE IF to_stage = "production" THEN [m \in RequiredSet |-> 800]
    ELSE [m \in {} |-> 0]

\* metrics.get(metric, default)
get_or(metrics, metric, default) ==
    IF metric \in DOMAIN metrics THEN metrics[metric] ELSE default

check_metrics_default_one(metrics, to_stage) ==
    LET reqs == PROMOTION_REQUIREMENTS(to_stage)
        failures == SelectSeq(RequirementKeys(reqs),
                              LAMBDA m : get_or(metrics, m, 1000) < reqs[m])
    IN  [passes |-> failures = <<>>, failures |-> failures]

\* the tuple (len(failures) == 0, failures); a metric the map lacks is
\* compared as 0
check_metrics_meet_requirements(metrics, to_stage) ==
    LET reqs == PROMOTION_REQUIREMENTS(to_stage)
        failures == SelectSeq(RequirementKeys(reqs),
                              LAMBDA m : get_or(metrics, m, 0) < reqs[m])
    IN  [passes |-> failures = <<>>, failures |-> failures]

HelperNotCalled == [passes |-> FALSE, failures |-> <<>>]

----------------------------------------------------------------------------
(* The model registry (Model Control Plane) the scripts talk to            *)

Versions == 1..MaxVersions

Stages == {"none", "staging", "production", "archived"}

\* stages that hold at most one version of a model name
ExclusiveStages == {"staging", "production"}

\* versions currently in stage s
InStage(stg, n, s) == {v \in 1..n : stg[v] = s}

\* client.get_model_version(model, <stage>): the version in the stage, 0 for
\* the KeyError raised when there is none; "latest" is the newest version
get_model_version_by_stage(stg, n, s) ==
    IF s = "latest" THEN n
    ELSE IF InStage(stg, n, s) = {} THEN 0
    ELSE CHOOSE v \in InStage(stg, n, s) : TRUE

\* client.get_model_version(model, <number>): 0 for the KeyError
get_model_version_by_number(n, number) ==
    IF number \in 1..n THEN number ELSE 0

\* ModelVersion.set_stage(stage, force) as the registry executes it: an
\* exclusive stage held by another version makes the call fail without
\* force, and with force sends the holder to archived
set_stage_keeps_holder(stg, n, v, s, force) ==
    [ok |-> TRUE, stage |-> [stg EXCEPT ![v] = s]]

set_stage(stg, n, v, s, force) ==
    LET holders == InStage(stg, n, s) \ {v}
    IN  IF s \in ExclusiveStages /\ holders # {}
        THEN IF ~force
             THEN [ok |-> FALSE, stage |-> stg]
             ELSE [ok |-> TRUE,
                   stage |-> [w \in Versions |->
                                IF w = v THEN s
                                ELSE IF w \in holders THEN "archived"
                                ELSE stg[w]]]
        ELSE [ok |-> TRUE, stage |-> [stg EXCEPT ![v] = s]]

----------------------------------------------------------------------------
(* scripts/promote_model.py : find_latest_with_metrics                     *)

\* "metrics and all(m in metrics for m in required_metrics)"
has_any_metrics(metrics) == DOMAIN metrics # {}

has_required_metrics(metrics) ==
    DOMAIN metrics # {} /\ \A m \in RequiredSet : m \in DOMAIN metrics

\* the first version, by number descending, that has the required metrics;
\* 0 for the ValueError raised when the loop finds none
find_latest_with_metrics(md, n) ==
    LET good == {v \in 1..n : has_required_metrics(md[v])}
    IN  IF good = {} THEN 0
        ELSE CHOOSE v \in good : \A w \in good : w <= v

----------------------------------------------------------------------------
(* scripts/promote_model.py : promote_model                                *)

\* an --option left out is 0 (a version) or "" (a stage)
FromStages == {"", "staging", "production", "latest"}

\* the <<--version, --from-stage>> pairs tried: one of them, neither, or
\* both (--version then wins)
Selectors ==
    {<<v, "">> : v \in 1..MaxVersions} \cup {<<0, s>> : s \in FromStages}
        \cup {<<1, "staging">>}

\* "Determine which version to promote"; 0 when the lookup raises
resolve_version(stg, md, n, version, from_stage) ==
    IF version # 0 THEN get_model_version_by_number(n, version)
    ELSE IF from_stage # "" THEN get_model_version_by_stage(stg, n, from_stage)
    ELSE find_latest_with_metrics(md, n)

\* the stage whose holder the occupancy check reads
checked_stage(to_stage) ==
    IF to_stage = "staging" THEN "staging" ELSE "production"

\* client.get_model_version(model, STAGING if to_stage == "staging" else
\* PRODUCTION) of the occupancy check; 0 for the KeyError
current_model_in_stage(stg, n, to_stage) ==
    get_model_version_by_stage(stg, n, checked_stage(to_stage))

\* the occupancy check: TRUE when it raises "Another model is already in .."
never_conflict(stg, n, mv, to_stage, force) == FALSE

occupancy_conflict(stg, n, mv, to_stage, force) ==
    LET current == current_model_in_stage(stg, n, to_stage)
    IN  /\ current # 0
        /\ current # mv
        /\ ~force

\* "if not skip_validation: validate_promotion(model_version, to_stage)"
unvalidated(md, mv, to_stage, skip_validation) == NotCalled

run_validation(md, mv, to_stage, skip_validation) ==
    IF skip_validation THEN NotCalled ELSE validate_promotion(md[mv], to_stage)

\* stage_map[to_stage] of the final set_stage call
stage_map_swapped(to_stage) ==
    IF to_stage = "staging" THEN "production"
    ELSE IF to_stage = "production" THEN "staging" ELSE to_stage

stage_map(to_stage) == to_stage

\* the record a finished script run leaves in "last"
\* (calls: the registry writes the run issued, a failing one included;
\* occupant: the version promote_model's occupancy check found, 0 for none;
\* chain: the promotion chain the run held in memory when it ended;
\* flags: the options of promote_cross_workspace.py the run was given)
Outcome(op, mv, to_stage, force, skip, dry, outcome, error, val, calls) ==
    [op |-> op, version |-> mv, to_stage |-> to_stage, force |-> force,
     skip_validation |-> skip, dry_run |-> dry, outcome |-> outcome,
     error |-> error, validation |-> val, calls |-> calls, occupant |-> 0,
     chain |-> <<>>, flags |-> {}]

\* promote_model: the whole run, for the version mv its options resolve to.
\* io_fail is the registry call failing for a reason of its own
\* (communication), which the script re-raises.
promote_model(stg, md, n, mv, to_stage, force, skip_validation, io_fail) ==
    LET Fail(error, val) ==
            [stage |-> stg,
             out |-> Outcome("promote_model", mv, to_stage, force,
                             skip_validation, FALSE, "error", error, val, <<>>)]
    IN  IF mv = 0 THEN Fail("not_found", NotCalled)
        ELSE
        LET val == run_validation(md, mv, to_stage, skip_validation)
            occ == current_model_in_stage(stg, n, to_stage)
        IN  IF val.error \in {"missing", "threshold"} THEN Fail("validation", val)
            ELSE IF occupancy_conflict(stg, n, mv, to_stage, force)
            THEN [stage |-> stg,
                  out |-> [Fail("conflict", val).out EXCEPT !.occupant = occ]]
            ELSE
            LET r == IF io_fail THEN [ok |-> FALSE, stage |-> stg]
                     ELSE set_stage(stg, n, mv, stage_map(to_stage), force)
                call == <<"set_stage", mv, stage_map(to_stage), force>>
            IN  [stage |-> r.stage,
                 out |-> [Outcome("promote_model", mv, to_stage, force,
                                  skip_validation, FALSE,
                                  IF r.ok THEN "ok" ELSE "error",
                                  IF r.ok THEN "none"
                                  ELSE IF io_fail THEN "io" ELSE "registry",
                                  val, <<call>>)
                          EXCEPT !.occupant = occ]]

----------------------------------------------------------------------------
(* scripts/rollback_model.py                                               *)

\* get_previous_production_version: versions by number descending, the first
\* below current_version that is archived or is current_version - 1; 0 for
\* None
get_previous_production_version(stg, n, current_version) ==
    LET cand == {v \in 1..n : /\ v < current_version
                              /\ \/ stg[v] = "archived"
                                 \/ v = current_version - 1}
    IN  IF cand = {} THEN 0
        ELSE CHOOSE v \in cand : \A w \in cand : w <= v

\* the remote calls of "Execute rollback", in program order
RollbackSteps == <<"demote", "promote", "log_metadata">>

\* "if dry_run: ... return" placed before the writes
dry_run_ignored(dry_run) == FALSE

dry_run_returns(dry_run) == dry_run

\* "if rollback_target.number == current_prod.number: ... raise click.Abort()"
target_never_current(rollback_target, current_prod) == FALSE

target_is_current(rollback_target, current_prod) ==
    rollback_target = current_prod

\* the registry writes of "Execute rollback", in the order they are issued
rollback_writes_promote_first(current_prod, rollback_target) ==
    <<<<"set_stage", rollback_target, "production", TRUE>>,
      <<"set_stage", current_prod, "archived", TRUE>>,
      <<"log_metadata", rollback_target, "rollback_event", TRUE>>>>

rollback_writes(current_prod, rollback_target) ==
    <<<<"set_stage", current_prod, "archived", TRUE>>,
      <<"set_stage", rollback_target, "production", TRUE>>,
      <<"log_metadata", rollback_target, "rollback_event", TRUE>>>>

\* rollback_model: the whole run.  fail_at is the remote call (1, 2 or 3) that
\* raises, 0 when none does; the handler logs and re-raises, undoing nothing.
rollback_model(stg, ev, n, to_version, dry_run, fail_at) ==
    LET current_prod == get_model_version_by_stage(stg, n, "production")
        rollback_target ==
            IF to_version # 0 THEN get_model_version_by_number(n, to_version)
            ELSE get_previous_production_version(stg, n, current_prod)
        End(outcome, error, calls, stg2, ev2) ==
            [stage |-> stg2, rollback_event |-> ev2,
             out |-> Outcome("rollback_model", rollback_target, "production",
                             TRUE, FALSE, dry_run, outcome, error, NotCalled,
                             calls)]
        demote == rollback_writes(current_prod, rollback_target)[1]
        promote == rollback_writes(current_prod, rollback_target)[2]
        log == rollback_writes(current_prod, rollback_target)[3]
    IN  IF current_prod = 0
        THEN [stage |-> stg, rollback_event |-> ev,
              out |-> Outcome("rollback_model", 0, "production", TRUE, FALSE,
                              dry_run, "abort", "no_production", NotCalled,
                              <<>>)]
        ELSE IF rollback_target = 0
        THEN End(IF to_version # 0 THEN "error" ELSE "abort",
                 IF to_version # 0 THEN "not_found" ELSE "no_previous",
                 <<>>, stg, ev)
        ELSE IF target_is_current(rollback_target, current_prod)
        THEN End("abort", "same_version", <<>>, stg, ev)
        ELSE IF dry_run_returns(dry_run)
        THEN End("ok", "none", <<>>, stg, ev)
        ELSE
        LET r1 == set_stage(stg, n, current_prod, "archived", TRUE)
            r2 == set_stage(r1.stage, n, rollback_target, "production", TRUE)
            ev3 == [ev EXCEPT ![rollback_target] = TRUE]
        IN  IF fail_at = 1 THEN End("error", "io", <<demote>>, stg, ev)
            ELSE IF fail_at = 2
            THEN End("error", "io", <<demote, promote>>, r1.stage, ev)
            ELSE IF fail_at = 3
            THEN End("error", "io", <<demote, promote, log>>, r2.stage, ev)
            ELSE End("ok", "none", <<demote, promote, log>>, r2.stage, ev3)

----------------------------------------------------------------------------
(* scripts/promote_cross_workspace.py : the manifest and its promotion     *)
(* chain; src/pipelines/import_model.py : the import pipeline              *)

\* WORKSPACE_CONFIG keys, the choices of --source-workspace/--dest-workspace
Workspaces == {"enterprise-dev-staging", "enterprise-production"}

\* the workspace the runs modelled here export from
SourceWorkspaces == {"enterprise-dev-staging"}

\* choices of --source-stage
SourceStages == {"staging", "production", "latest"}

\* choices of --dest-stage
DestStages == {"staging", "production"}

\* the workspace the runs modelled here import into
DestWorkspaces == {"enterprise-production"}

\* the names under which the pipelines link artifacts (with a value that is
\* not None) to a model version
ArtifactNames == {"model", "sklearn_classifier", "scaler"}

\* training_pipeline: train_model registers its output as "model",
\* engineer_features its scaler as "scaler"
TrainedArtifacts == {"model", "scaler"}

\* the objects export_model writes under an export path, in upload order
ManifestFirstUploads == <<"manifest.json", "model.joblib", "scaler.joblib">>

ExportUploads == <<"model.joblib", "scaler.joblib", "manifest.json">>

Blobs == Range(ExportUploads)

\* no manifest.json under the export path
NoManifest == [source_version |-> 0, metrics |-> [m \in {} |-> 0],
               artifacts |-> {}, promotion_chain |-> <<>>]

\* the entry export_model creates the chain with
exported_entry(source_workspace, number) ==
    [action |-> "exported", workspace |-> source_workspace,
     version |-> number, stage |-> "", import_run_url |-> FALSE]

\* the entry import_model appends
imported_entry(dest_workspace, dest_stage) ==
    [action |-> "imported", workspace |-> dest_workspace,
     version |-> 0, stage |-> dest_stage, import_run_url |-> FALSE]

\* "Extract metrics from metadata": the entries of run_metadata that are
\* scalars (int, float, str, bool); a dict-valued entry such as the
\* rollback_event rollback_model logs is left out
required_metadata(metadata, has_rollback_event) ==
    [k \in DOMAIN metadata \cap RequiredSet |-> metadata[k]]

scalar_metadata(metadata, has_rollback_event) == metadata

\* export_model: the manifest it builds for model version mv; "artifacts"
\* holds the keys whose location is not null
export_manifest(md, ev, mv, source_workspace, scaler) ==
    [source_version |-> mv, metrics |-> scalar_metadata(md[mv], ev[mv]),
     artifacts |-> IF scaler THEN {"model", "scaler"} ELSE {"model"},
     promotion_chain |-> <<exported_entry(source_workspace, mv)>>]

\* the uploads of export_model in order: "if scaler is not None" guards the
\* scaler's
every_upload(scaler) == ExportUploads

planned_uploads(scaler) ==
    SelectSeq(ExportUploads, LAMBDA b : b # "scaler.joblib" \/ scaler)

\* export_model for model version mv.  fail_at is the upload that raises
\* ("" when none does).  The result holds the blobs written under the new
\* export path, in order, and the manifest when its upload succeeded.
export_model(art, md, ev, mv, source_workspace, fail_at) ==
    LET model_artifact == "sklearn_classifier" \in art[mv]
        scaler == "scaler" \in art[mv]
        m == export_manifest(md, ev, mv, source_workspace, scaler)
        planned == planned_uploads(scaler)
        k == IF fail_at \in Range(planned)
             THEN CHOOSE i \in 1..Len(planned) : planned[i] = fail_at
             ELSE Len(planned) + 1
        written == SubSeq(planned, 1, k - 1)
    IN  IF ~model_artifact
        THEN [error |-> "no_model_artifact", written |-> <<>>,
              manifest |-> NoManifest]
        ELSE IF k <= Len(planned)
        THEN [error |-> "io", written |-> written, manifest |-> NoManifest]
        ELSE [error |-> "none", written |-> written, manifest |-> m]

\* the blobs a complete export with manifest m left under its path
blobs_of(m) ==
    {"model.joblib", "manifest.json"}
        \cup (IF "scaler" \in m.artifacts THEN {"scaler.joblib"} ELSE {})

\* metrics maps of exports made elsewhere that the import pipeline is given:
\* one that meets the staging minimums and not the production ones
ExternalMetrics ==
    {[m \in {"accuracy", "precision", "recall", "f1_score"} |->
        IF m = "recall" THEN 750 ELSE 850]}

\* import_metadata of exports made elsewhere (complete, with a scaler)
ExternalManifests ==
    {[source_version |-> 1, metrics |-> mm, artifacts |-> {"model", "scaler"},
      promotion_chain |-> <<exported_entry("enterprise-dev-staging", 1)>>] :
        mm \in ExternalMetrics}

\* manifest["promotion_chain"].append({...}) in import_model
assign_import_entry(m, dest_workspace, dest_stage) ==
    [m EXCEPT !.promotion_chain = <<imported_entry(dest_workspace, dest_stage)>>]

append_import_entry(m, dest_workspace, dest_stage) ==
    [m EXCEPT !.promotion_chain =
        Append(@, imported_entry(dest_workspace, dest_stage))]

\* log_cross_workspace_metadata: the chain after "Update the last
\* promotion_chain entry (the import action) with the run URL"; the workspace
\* name is the entry's to_workspace and the active project has a name
log_chain(chain) ==
    IF chain # <<>> /\ chain[Len(chain)].action = "imported"
                   /\ chain[Len(chain)].workspace # ""
    THEN [chain EXCEPT ![Len(chain)].import_run_url = TRUE]
    ELSE chain

\* "if metrics: log_metadata(metadata=metrics, infer_model=True)"
log_metrics(old, metrics) ==
    [k \in DOMAIN old \cup DOMAIN metrics |->
        IF k \in DOMAIN metrics THEN metrics[k] ELSE old[k]]

\* the steps of import_model_pipeline and the steps each one waits for
PipelineSteps == {"download_and_register_model", "download_and_register_scaler",
                  "log_cross_workspace_metadata", "set_model_stage"}

Upstream(step) ==
    IF step = "set_model_stage" THEN {"log_cross_workspace_metadata"} ELSE {}

\* set_model_stage: context.model.set_stage(stage_map[dest_stage], force=True)
set_model_stage_unforced(stg, n, v, dest_stage) ==
    set_stage(stg, n, v, dest_stage, FALSE)

set_model_stage(stg, n, v, dest_stage) ==
    IF dest_stage \in {"staging", "production"}
    THEN set_stage(stg, n, v, dest_stage, TRUE)
    ELSE [ok |-> TRUE, stage |-> stg]

\* export: the blobs under the run's export_path
NoImport == [pc |-> "idle", done |-> {}, version |-> 0, dest_stage |-> "",
             import_metadata |-> NoManifest, has_scaler |-> FALSE,
             export |-> {}]

----------------------------------------------------------------------------
(* governance/hooks : alerting_hook.py, compliance_hook.py,                *)
(* monitoring_hook.py                                                      *)

\* the hooks whose whole body is "try: ... except Exception as e: log"
AlertingHooks == {"alerter_success_hook", "alerter_failure_hook",
                  "pipeline_success_hook", "pipeline_failure_hook",
                  "compliance_failure_hook", "monitoring_success_hook"}

Hooks == AlertingHooks \cup {"model_governance_hook"}

\* where a failure is raised inside a hook: in get_step_context(), in
\* model_governance_hook's lookup of the model version (which has a try of its
\* own), or in the rest of the body; "" when nothing fails
FailPoints == {"", "get_step_context", "get_model_version", "body"}

\* kinds of failure: a ValueError, another subclass of Exception, and a
\* BaseException that is not an Exception (KeyboardInterrupt, SystemExit)
Kinds == {"ValueError", "Exception", "BaseException"}

\* "except Exception" catches the kind
caught_by_except_exception(kind) == kind \in {"ValueError", "Exception"}

\* model_governance_hook: "except ValueError: raise"
reraises_nothing(name, fail_at, kind) == FALSE

reraises(name, fail_at, kind) ==
    /\ name = "model_governance_hook"
    /\ fail_at # "get_model_version"
    /\ kind = "ValueError"

\* a hook call: "returned" or "raised" (the failure reaches the pipeline),
\* and whether the hook logged the failure.  model is context.model of
\* model_governance_hook, which returns at once without it.
run_hook(name, fail_at, kind, model) ==
    IF fail_at = ""
    THEN [result |-> "returned", logged |-> FALSE]
    ELSE IF name = "model_governance_hook" /\ ~model
                                           /\ fail_at # "get_step_context"
    THEN [result |-> "returned", logged |-> FALSE]
    ELSE IF reraises(name, fail_at, kind)
    THEN [result |-> "raised", logged |-> FALSE]
    ELSE IF caught_by_except_exception(kind)
    THEN [result |-> "returned", logged |-> TRUE]
    ELSE [result |-> "raised", logged |-> FALSE]

----------------------------------------------------------------------------
(* src/pipelines/champion_challenger.py : compare_predictions and          *)
(* generate_comparison_report.  A rate or a probability is a fraction      *)
(* num/den of thousandths, which keeps the means exact.                    *)

Ratio(num, den) == [num |-> num, den |-> den]

\* num/den >= t and num/den < t, for den > 0
AtLeast(r, t) == r.num >= t * r.den

Below(r, t) == r.num < t * r.den

\* a row of a predictions frame: the class predicted and the probability of
\* class 1 it was predicted from, in thousandths
Rows == {[prediction |-> 0, probability |-> 200],
         [prediction |-> 0, probability |-> 450],
         [prediction |-> 1, probability |-> 550],
         [prediction |-> 1, probability |-> 900]}

\* the sum of a sequence of numbers
RECURSIVE Sum(_)
Sum(q) == IF q = <<>> THEN 0 ELSE q[1] + Sum(Tail(q))

\* ndarray.max() of a sequence that is not empty
Max(q) == CHOOSE x \in Range(q) : \A y \in Range(q) : y <= x

\* abs(champion - challenger) of one row
signed_diff(a, b) == a - b

abs_diff(a, b) == IF a >= b THEN a - b ELSE b - a

\* no comparison made
NoComparison == [total_samples |-> 0, agreement_rate |-> Ratio(0, 1),
                 champion_positive_rate |-> Ratio(0, 1),
                 challenger_positive_rate |-> Ratio(0, 1),
                 avg_probability_diff |-> Ratio(0, 1),
                 max_probability_diff |-> 0]

\* compare_predictions on two frames of the same batch (same length, not
\* empty): the comparison dict
compare_predictions(champion_predictions, challenger_predictions) ==
    LET n == Len(champion_predictions)
        agree == [i \in 1..n |->
                    IF champion_predictions[i].prediction
                         = challenger_predictions[i].prediction
                    THEN 1 ELSE 0]
        diff == [i \in 1..n |->
                    abs_diff(champion_predictions[i].probability,
                             challenger_predictions[i].probability)]
    IN  [total_samples |-> n,
         agreement_rate |-> Ratio(1000 * Sum(agree), n),
         champion_positive_rate |->
             Ratio(1000 * Sum([i \in 1..n |->
                                  champion_predictions[i].prediction]), n),
         challenger_positive_rate |->
             Ratio(1000 * Sum([i \in 1..n |->
                                  challenger_predictions[i].prediction]), n),
         avg_probability_diff |-> Ratio(Sum(diff), n),
         max_probability_diff |-> Max(diff)]

\* generate_comparison_report: the recommendation of the report
report_diff_inclusive(comparison_metrics) ==
    LET agreement == comparison_metrics.agreement_rate
        prob_diff == comparison_metrics.avg_probability_diff
    IN  IF AtLeast(agreement, 950) /\ prob_diff.num <= 50 * prob_diff.den
        THEN "SAFE TO PROMOTE"
        ELSE IF AtLeast(agreement, 850) THEN "REVIEW RECOMMENDED"
        ELSE "CAUTION"

generate_comparison_report(comparison_metrics) ==
    LET agreement == comparison_metrics.agreement_rate
        prob_diff == comparison_metrics.avg_probability_diff
    IN  IF AtLeast(agreement, 950) /\ Below(prob_diff, 50)
        THEN "SAFE TO PROMOTE"
        ELSE IF AtLeast(agreement, 850) THEN "REVIEW RECOMMENDED"
        ELSE "CAUTION"

----------------------------------------------------------------------------
(* governance/docker/docker_settings.py : get_docker_settings              *)

\* _BASE_ENVIRONMENT
BASE_ENVIRONMENT ==
    [k \in {"PYTHONUNBUFFERED", "PYTHONDONTWRITEBYTECODE", "PIP_NO_CACHE_DIR",
            "PIP_DISABLE_PIP_VERSION_CHECK"} |-> "1"]

\* a dict literal {**a, **b} and dict.update: the entries of b replace those
\* of a that have the same key
update_keeps_old(a, b) ==
    [k \in DOMAIN a \cup DOMAIN b |-> IF k \in DOMAIN a THEN a[k] ELSE b[k]]

update(a, b) ==
    [k \in DOMAIN a \cup DOMAIN b |-> IF k \in DOMAIN b THEN b[k] ELSE a[k]]

\* DockerSettings(**kwargs): the fields the function reads or sets, with the
\* class defaults for those not passed.  None is "" for parent_image and
\* the empty sequence for a list; an absent python_package_installer_args
\* is system = FALSE.
DockerSettings(parent_image, system, apt_packages, environment, required_integrations, pip_requirements) ==
    [python_package_installer |-> "uv",
     parent_image |-> parent_image,
     system |-> system,
     apt_packages |-> apt_packages,
     environment |-> environment,
     required_integrations |-> required_integrations,
     requirements |-> pip_requirements,
     install_stack_requirements |-> TRUE]

BASE_DOCKER_SETTINGS ==
    DockerSettings("", FALSE, <<>>, BASE_ENVIRONMENT, <<>>, <<>>)

STANDARD_DOCKER_SETTINGS ==
    DockerSettings("", FALSE, <<>>, BASE_ENVIRONMENT, <<"sklearn">>, <<>>)

GPU_DOCKER_SETTINGS ==
    DockerSettings("pytorch/pytorch:2.2.0-cuda11.8-cudnn8-runtime", TRUE,
                   <<"libsm6", "libxext6", "libgl1-mesa-glx">>,
                   update(BASE_ENVIRONMENT,
                          [k \in {"CUDA_VISIBLE_DEVICES", "TORCH_CUDA_ARCH_LIST"}
                             |-> IF k = "CUDA_VISIBLE_DEVICES" THEN "0"
                                 ELSE "7.0 7.5 8.0 8.6"]),
                   <<"pytorch">>, <<>>)

LIGHTWEIGHT_DOCKER_SETTINGS ==
    DockerSettings("", FALSE, <<>>, BASE_ENVIRONMENT, <<>>, <<>>)

\* the keys of base_configs
BaseNames == {"standard", "gpu", "lightweight", "base"}

base_configs(base) ==
    CASE base = "standard" -> STANDARD_DOCKER_SETTINGS
      [] base = "gpu" -> GPU_DOCKER_SETTINGS
      [] base = "lightweight" -> LIGHTWEIGHT_DOCKER_SETTINGS
      [] OTHER -> BASE_DOCKER_SETTINGS

NoSettings == DockerSettings("", FALSE, <<>>, [k \in {} |-> ""], <<>>, <<>>)

\* get_docker_settings; an argument left at None is the empty sequence, the
\* empty dict or "", which the function's 'if extra...:' tests treat alike
get_docker_settings(base, extra_apt_packages, extra_integrations, extra_requirements, extra_environment, parent_image) ==
    IF base \notin BaseNames
    THEN [error |-> "ValueError", settings |-> NoSettings]
    ELSE LET base_settings == base_configs(base)
             apt_packages == base_settings.apt_packages \o extra_apt_packages
             integrations ==
                 base_settings.required_integrations \o extra_integrations
             pip_requirements ==
                 IF extra_requirements # <<>>
                 THEN base_settings.requirements \o extra_requirements
                 ELSE base_settings.requirements
             environment ==
                 update(base_settings.environment, extra_environment)
             image == IF parent_image # "" THEN parent_image
                      ELSE base_settings.parent_image
         IN  [error |-> "none",
              settings |-> DockerSettings(image, image # "", apt_packages,
                                          environment, integrations,
                                          pip_requirements)]

DockerIdle == [base |-> "standard", extra_apt_packages |-> <<>>,
               extra_integrations |-> <<>>, extra_requirements |-> <<>>,
               extra_environment |-> [k \in {} |-> ""], parent_image |-> "",
               called |-> FALSE, error |-> "none", settings |-> NoSettings]

----------------------------------------------------------------------------
(* scripts/promote_model.py : two runs of promote_model at the same time   *)

\* the two script processes
Runs == {1, 2}

RunIdle == [pc |-> "idle", version |-> 0, to_stage |-> "", force |-> FALSE,
            skip_validation |-> FALSE, occupant |-> 0, error |-> "none"]

RaceIdle == [p \in Runs |-> RunIdle]

\* model_version.set_stage(stage=stage_map[to_stage], force=force)
write_stage_forced(stg, n, mv, to_stage, force) ==
    set_stage(stg, n, mv, stage_map(to_stage), TRUE)

write_stage(stg, n, mv, to_stage, force) ==
    set_stage(stg, n, mv, stage_map(to_stage), force)

----------------------------------------------------------------------------
(* Initial state: an empty registry, no manifest, nothing running          *)

NoRun == Outcome("none", 0, "", FALSE, FALSE, FALSE, "none", "none",
                 NotCalled, <<>>)

GateIdle == [metrics |-> [m \in {} |-> 0], to_stage |-> "staging",
             called |-> FALSE, result |-> NotCalled,
             helper_called |-> FALSE, helper |-> HelperNotCalled,
             dest_workspace |-> ""]

\* no hook call and no comparison in progress
HookIdle == [name |-> "", fail_at |-> "", kind |-> "", model |-> FALSE,
             called |-> FALSE, result |-> "none", logged |-> FALSE]

CmpIdle == [champion |-> <<>>, challenger |-> <<>>, pc |-> "idle",
            comparison |-> NoComparison, recommendation |-> ""]

InitRegistry ==
    /\ stage = [v \in Versions |-> "none"]
    /\ run_metadata = [v \in Versions |-> [m \in {} |-> 0]]
    /\ rollback_event = [v \in Versions |-> FALSE]
    /\ nver = 0
    /\ last = NoRun
    /\ manifest = NoManifest
    /\ imp = NoImport
    /\ artifacts = [v \in Versions |-> {}]
    /\ bucket = {}

Init ==
    /\ gate = GateIdle
    /\ hook = HookIdle
    /\ cmp = CmpIdle
    /\ docker = DockerIdle
    /\ race = RaceIdle
    /\ InitRegistry

----------------------------------------------------------------------------
(* Actions: one per script run or pipeline step                            *)

\* src/pipelines/training.py, fully cached run: the run registers the next
\* model version but no step executes, so no metrics are logged on it; the
\* cached outputs of its steps are linked to the version
CachedTrainingRun ==
    /\ imp.pc = "idle"
    /\ nver < MaxVersions
    /\ nver' = nver + 1
    /\ artifacts' = [artifacts EXCEPT ![nver + 1] = TrainedArtifacts]
    /\ last' = Outcome("training_pipeline", nver + 1, "", FALSE, FALSE,
                       FALSE, "ok", "cached", NotCalled, <<>>)
    /\ UNCHANGED <<gate, stage, run_metadata, rollback_event, manifest, imp,
                   bucket, hook, cmp, docker, race>>

\* src/pipelines/training.py: a run registers the next model version and its
\* evaluate_model step logs the metrics on it
TrainingRun ==
    /\ imp.pc = "idle"
    /\ nver < MaxVersions
    /\ \E m \in TrainedMetrics :
          /\ nver' = nver + 1
          /\ run_metadata' = [run_metadata EXCEPT ![nver + 1] = m]
          /\ last' = Outcome("training_pipeline", nver + 1, "", FALSE, FALSE,
                             FALSE, "ok", "none", NotCalled, <<>>)
    /\ artifacts' = [artifacts EXCEPT ![nver + 1] = TrainedArtifacts]
    /\ UNCHANGED <<gate, stage, rollback_event, manifest, imp,
                   bucket, hook, cmp, docker, race>>

\* python scripts/promote_model.py --model .. [--version|--from-stage]
\*     --to-stage .. [--force] [--skip-validation]
Promote ==
    /\ imp.pc = "idle"
    /\ \E mv \in {resolve_version(stage, run_metadata, nver, sel[1], sel[2]) :
                      sel \in Selectors},
          to_stage \in ToStages, force \in BOOLEAN,
          skip_validation \in BOOLEAN, io_fail \in BOOLEAN :
          LET r == promote_model(stage, run_metadata, nver, mv, to_stage,
                                 force, skip_validation, io_fail)
          IN  /\ stage' = r.stage
              /\ last' = r.out
    /\ UNCHANGED <<gate, run_metadata, rollback_event, nver, manifest, imp,
                   artifacts, bucket, hook, cmp, docker, race>>

\* python scripts/rollback_model.py --model .. [--to-version] [--dry-run]
Rollback ==
    /\ imp.pc = "idle"
    /\ \E to_version \in 0..MaxVersions, dry_run \in BOOLEAN,
          fail_at \in 0..Len(RollbackSteps) :
          LET r == rollback_model(stage, rollback_event, nver, to_version,
                                  dry_run, fail_at)
          IN  /\ stage' = r.stage
              /\ rollback_event' = r.rollback_event
              /\ last' = r.out
    /\ UNCHANGED <<gate, run_metadata, nver, manifest, imp,
                   artifacts, bucket, hook, cmp, docker, race>>

\* the uploads of a run as registry/bucket calls of its outcome
upload_calls(written) ==
    [i \in 1..Len(written) |-> <<"upload", 0, written[i], FALSE>>]

\* export phase of promote_cross_workspace.py: export_model.  A run that
\* raises before its first upload leaves the bucket as it was; otherwise the
\* bucket holds what the run wrote under its new export path.
Export ==
    /\ imp.pc = "idle"
    /\ \E source_stage \in SourceStages, source_workspace \in SourceWorkspaces,
          fail_at \in {""} \cup Blobs :
          LET mv == get_model_version_by_stage(stage, nver, source_stage)
              r == export_model(artifacts, run_metadata, rollback_event, mv,
                                source_workspace, fail_at)
          IN  IF mv = 0
              THEN /\ UNCHANGED <<manifest, bucket>>
                   /\ last' = Outcome("export_model", 0, source_stage, FALSE,
                                      FALSE, FALSE, "error", "not_found",
                                      NotCalled, <<>>)
              ELSE /\ IF r.written = <<>>
                      THEN UNCHANGED <<manifest, bucket>>
                      ELSE /\ manifest' = r.manifest
                           /\ bucket' = Range(r.written)
                   /\ last' = Outcome("export_model", mv, source_stage, FALSE,
                                      FALSE, FALSE,
                                      IF r.error = "none" THEN "ok" ELSE "error",
                                      r.error, NotCalled,
                                      upload_calls(r.written))
    /\ UNCHANGED <<gate, stage, run_metadata, rollback_event, nver, imp,
                   artifacts, hook, cmp, docker, race>>

\* export_model started in the same second as the export before it:
\* strftime("%Y-%m-%dT%H-%M-%S") gives both the same export_path, so the run
\* writes over the blobs of that export and leaves those it does not write
ExportSamePath ==
    /\ imp.pc = "idle"
    /\ bucket # {}
    /\ \E source_stage \in SourceStages, source_workspace \in SourceWorkspaces,
          fail_at \in {""} \cup Blobs :
          LET mv == get_model_version_by_stage(stage, nver, source_stage)
              r == export_model(artifacts, run_metadata, rollback_event, mv,
                                source_workspace, fail_at)
          IN  /\ mv # 0
              /\ bucket' = bucket \cup Range(r.written)
              /\ manifest' = IF "manifest.json" \in Range(r.written)
                             THEN r.manifest ELSE manifest
              /\ last' = Outcome("export_model", mv, source_stage, FALSE,
                                 FALSE, FALSE,
                                 IF r.error = "none" THEN "ok" ELSE "error",
                                 r.error, NotCalled, upload_calls(r.written))
    /\ UNCHANGED <<gate, stage, run_metadata, rollback_event, nver, imp,
                   artifacts, hook, cmp, docker, race>>

\* import_model: loads the manifest, downloads the blobs it names, appends
\* the import entry and calls import_model_pipeline with model_artifact= and
\* scaler_artifact=, which the pipeline's signature (export_path,
\* import_metadata, has_scaler, dest_stage) rejects.  The result is the error
\* raised and the promotion chain the run held when it ended.
import_model(m, blobs, dest_workspace, dest_stage) ==
    IF m = NoManifest
    THEN [error |-> "no_manifest", chain |-> <<>>]
    ELSE IF ~(blobs_of(m) \subseteq blobs)
    THEN [error |-> "download", chain |-> m.promotion_chain]
    ELSE [error |-> "pipeline_arguments",
          chain |-> append_import_entry(m, dest_workspace,
                                        dest_stage).promotion_chain]

\* import phase of promote_cross_workspace.py: import_model on the manifest
\* of the latest export
ScriptImport ==
    /\ imp.pc = "idle"
    /\ \E dest_workspace \in Workspaces, dest_stage \in DestStages :
          LET r == import_model(manifest, bucket, dest_workspace, dest_stage)
          IN  last' = [Outcome("import_model", 0, dest_stage, FALSE, FALSE,
                               FALSE, "error", r.error, NotCalled, <<>>)
                       EXCEPT !.chain = r.chain]
    /\ UNCHANGED <<gate, stage, run_metadata, rollback_event, nver, manifest,
                   imp, artifacts, bucket, hook, cmp, docker, race>>

\* validate_for_promotion: requirements.get(dest_workspace, {})
workspace_requirements(dest_workspace) ==
    IF dest_workspace = "enterprise-staging"
    THEN [m \in RequiredSet |-> 700]
    ELSE IF dest_workspace = "enterprise-production"
    THEN [m \in RequiredSet |-> 800]
    ELSE [m \in {} |-> 0]

\* validate_for_promotion(manifest, dest_workspace): a metric that is missing
\* or below its minimum is a failure, and any failure raises ValueError
validate_for_promotion(metrics, dest_workspace) ==
    LET req == workspace_requirements(dest_workspace)
        failures == SelectSeq(RequirementKeys(req),
                              LAMBDA m : \/ m \notin DOMAIN metrics
                                         \/ metrics[m] < req[m])
    IN  [ok |-> failures = <<>>,
         error |-> IF failures = <<>> THEN "none" ELSE "threshold",
         missing |-> <<>>, failures |-> failures, evaluated |-> DOMAIN req]

\* --import-from left out
NoImportFrom == [given |-> FALSE, manifest |-> NoManifest, blobs |-> {}]

\* the options of a run that (also) name a flag of the command line
option_flags(o) ==
    (IF o.export_only THEN {"export_only"} ELSE {})
        \cup (IF o.import_from.given THEN {"import_from"} ELSE {})
        \cup (IF o.dest_workspace # "" THEN {"dest_workspace"} ELSE {})
        \cup (IF o.source_workspace # "" THEN {"source_workspace"} ELSE {})

\* "if dest_workspace and not skip_validation"
never_validates(o) == FALSE

needs_validation(o) == o.dest_workspace # "" /\ ~o.skip_validation

\* "if export_only: return" of the export phase
export_only_returns(o) == o.export_only

\* promote_cross_workspace: the whole run with options o (an option left out
\* is ""); fail_at is the upload of export_model that raises.  The result is
\* the exchange bucket and latest manifest it leaves and its outcome, whose
\* calls are the remote calls in program order: connect_to_workspace (its
\* flag tells the connection to the destination), the uploads,
\* validate_for_promotion, import_model.
promote_cross_workspace(art, md, ev, stg, n, man, bkt, o) ==
    LET exporting == ~o.import_from.given
        mv == get_model_version_by_stage(stg, n, o.source_stage)
        e == export_model(art, md, ev, mv, o.source_workspace, o.fail_at)
        connect_source == <<"connect_to_workspace", 0, o.source_workspace, FALSE>>
        connect_dest == <<"connect_to_workspace", 0, o.dest_workspace, TRUE>>
        validate == <<"validate_for_promotion", 0, o.dest_workspace, FALSE>>
        import == <<"import_model", 0, o.dest_stage, FALSE>>
        exported == exporting /\ mv # 0 /\ e.written # <<>>
        manifest2 == IF exported THEN e.manifest ELSE man
        bucket2 == IF exported THEN Range(e.written) ELSE bkt
        End(outcome, error, val, calls, chain) ==
            [manifest |-> manifest2, bucket |-> bucket2,
             out |-> [Outcome("promote_cross_workspace",
                              IF exporting THEN mv ELSE 0, o.dest_stage,
                              FALSE, o.skip_validation, FALSE, outcome, error,
                              val, calls)
                      EXCEPT !.chain = chain, !.flags = option_flags(o)]]
    IN  IF exporting /\ o.source_workspace = ""
        THEN [manifest |-> man, bucket |-> bkt,
              out |-> [Outcome("promote_cross_workspace", 0, o.dest_stage,
                               FALSE, o.skip_validation, FALSE, "error",
                               "usage", NotCalled, <<>>)
                       EXCEPT !.flags = option_flags(o)]]
        ELSE IF exporting /\ mv = 0
        THEN End("error", "not_found", NotCalled, <<connect_source>>, <<>>)
        ELSE IF exporting /\ e.error # "none"
        THEN End("error", e.error, NotCalled,
                 <<connect_source>> \o upload_calls(e.written), <<>>)
        ELSE IF exporting /\ export_only_returns(o)
        THEN End("ok", "none", NotCalled,
                 <<connect_source>> \o upload_calls(e.written),
                 e.manifest.promotion_chain)
        ELSE IF ~exporting /\ o.import_from.manifest = NoManifest
        THEN End("error", "no_manifest", NotCalled, <<>>, <<>>)
        ELSE
        LET m == IF exporting THEN e.manifest ELSE o.import_from.manifest
            blobs == IF exporting THEN Range(e.written)
                     ELSE o.import_from.blobs
            c1 == IF exporting
                  THEN <<connect_source>> \o upload_calls(e.written)
                  ELSE <<>>
            validated == needs_validation(o)
            val == IF validated
                   THEN validate_for_promotion(m.metrics, o.dest_workspace)
                   ELSE NotCalled
            c2 == IF validated THEN Append(c1, validate) ELSE c1
        IN  IF validated /\ ~val.ok
            THEN End("error", "validation", val, c2, m.promotion_chain)
            ELSE IF o.dest_workspace = ""
            THEN End("ok", "none", val, c2, m.promotion_chain)
            ELSE LET r == import_model(m, blobs, o.dest_workspace,
                                       o.dest_stage)
                 IN  End("error", r.error, val,
                         c2 \o <<connect_dest, import>>, r.chain)

\* the exports an import run can be pointed at: the latest export of this
\* bucket when it is complete, and the exports made elsewhere
ImportSources ==
    (IF manifest # NoManifest
     THEN {[manifest |-> manifest, blobs |-> bucket]} ELSE {})
    \cup {[manifest |-> m, blobs |-> blobs_of(m)] : m \in ExternalManifests}

\* metrics of an export made elsewhere that meet the production minimums
PassingMetrics ==
    [m \in {"accuracy", "precision", "recall", "f1_score"} |-> 850]

\* the values of --import-from tried: left out, the exports an import can
\* be pointed at, an export made elsewhere whose metrics meet the
\* production minimums, and a path that holds no manifest
ImportFromPaths ==
    {NoImportFrom}
        \cup {[given |-> TRUE, manifest |-> src.manifest, blobs |-> src.blobs] :
                src \in ImportSources}
        \cup {[given |-> TRUE, manifest |-> [m EXCEPT !.metrics = PassingMetrics],
                blobs |-> blobs_of(m)] : m \in ExternalManifests}
        \cup {[given |-> TRUE, manifest |-> NoManifest, blobs |-> {}]}

\* python scripts/promote_cross_workspace.py --model .. [--source-workspace]
\*     [--dest-workspace] [--source-stage] [--dest-stage] [--export-only]
\*     [--import-from] [--skip-validation]
\* (a run given --import-from reads neither --source-stage nor a source
\* version, so these keep their defaults there)
CrossWorkspace ==
    /\ imp.pc = "idle"
    /\ \E import_from \in ImportFromPaths,
          source_workspace \in {""} \cup SourceWorkspaces,
          dest_workspace \in {""} \cup Workspaces,
          dest_stage \in DestStages,
          export_only \in BOOLEAN, skip_validation \in BOOLEAN :
       \E source_stage \in IF import_from.given THEN {"staging"}
                           ELSE SourceStages,
          fail_at \in IF import_from.given THEN {""} ELSE {""} \cup Blobs :
          LET r == promote_cross_workspace(
                       artifacts, run_metadata, rollback_event, stage, nver,
                       manifest, bucket,
                       [source_workspace |-> source_workspace,
                        dest_workspace |-> dest_workspace,
                        source_stage |-> source_stage,
                        dest_stage |-> dest_stage,
                        export_only |-> export_only,
                        import_from |-> import_from,
                        skip_validation |-> skip_validation,
                        fail_at |-> fail_at])
          IN  /\ manifest' = r.manifest
              /\ bucket' = r.bucket
              /\ last' = r.out
    /\ UNCHANGED <<gate, stage, run_metadata, rollback_event, nver, imp,
                   artifacts, hook, cmp, docker, race>>

\* import_model_pipeline(export_path, import_metadata, has_scaler,
\* dest_stage) started: the run registers the next version of the model.
\* import_metadata is the manifest, as exported or with the import entry.
PipelineStartWith(scaler_flags) ==
    /\ imp.pc = "idle"
    /\ nver < MaxVersions
    /\ \E src \in ImportSources, dest_stage \in DestStages,
          dest_workspace \in DestWorkspaces, with_entry \in BOOLEAN,
          has_scaler \in scaler_flags :
          imp' = [pc |-> "running", done |-> {}, version |-> nver + 1,
                  dest_stage |-> dest_stage,
                  import_metadata |->
                      IF with_entry
                      THEN append_import_entry(src.manifest, dest_workspace,
                                               dest_stage)
                      ELSE src.manifest,
                  has_scaler |-> has_scaler,
                  export |-> src.blobs]
    /\ nver' = nver + 1
    /\ last' = Outcome("import_model_pipeline", nver + 1, "", TRUE, FALSE,
                       FALSE, "running", "none", NotCalled, <<>>)
    /\ UNCHANGED <<gate, stage, run_metadata, rollback_event, manifest,
                   artifacts, bucket, hook, cmp, docker, race>>

PipelineStart == PipelineStartWith(BOOLEAN)

\* the run started with the default has_scaler=True
PipelineStartDefault == PipelineStartWith({TRUE})

\* a step is ready when the steps it takes its inputs from are done
Ready(step) ==
    /\ imp.pc = "running"
    /\ step \notin imp.done
    /\ Upstream(step) \subseteq imp.done

\* what finishing a step does to the run
Finish(step, calls, chain) ==
    LET done == imp.done \cup {step}
    IN  IF done = PipelineSteps
        THEN /\ imp' = NoImport
             /\ last' = [last EXCEPT !.outcome = "ok",
                                     !.to_stage = imp.dest_stage,
                                     !.calls = last.calls \o calls,
                                     !.chain = chain]
        ELSE /\ imp' = [imp EXCEPT !.done = done,
                                   !.import_metadata.promotion_chain = chain]
             /\ last' = [last EXCEPT !.calls = last.calls \o calls]

\* download_and_register_model: downloads {export_path}/model.joblib and
\* returns it as the artifact "sklearn_classifier" of the new version
StepDownloadModel ==
    /\ Ready("download_and_register_model")
    /\ "model.joblib" \in imp.export
    /\ artifacts' = [artifacts EXCEPT ![imp.version] =
                        @ \cup {"sklearn_classifier"}]
    /\ Finish("download_and_register_model", <<>>,
              imp.import_metadata.promotion_chain)
    /\ UNCHANGED <<gate, stage, run_metadata, rollback_event, nver, manifest,
                   bucket, hook, cmp, docker, race>>

\* download_and_register_scaler: with has_scaler it downloads
\* {export_path}/scaler.joblib and returns it as the artifact "scaler" of the
\* new version; without, it returns None, and a scaler that loads as None is
\* no scaler to export_model
StepDownloadScaler ==
    /\ Ready("download_and_register_scaler")
    /\ imp.has_scaler => "scaler.joblib" \in imp.export
    /\ artifacts' = [artifacts EXCEPT ![imp.version] =
                        @ \cup (IF imp.has_scaler THEN {"scaler"} ELSE {})]
    /\ Finish("download_and_register_scaler", <<>>,
              imp.import_metadata.promotion_chain)
    /\ UNCHANGED <<gate, stage, run_metadata, rollback_event, nver, manifest,
                   bucket, hook, cmp, docker, race>>

\* log_cross_workspace_metadata: logs the metrics on the new version,
\* completes the import entry of the chain and logs the lineage
StepLogMetadata ==
    /\ Ready("log_cross_workspace_metadata")
    /\ run_metadata' =
          [run_metadata EXCEPT ![imp.version] =
              log_metrics(@, imp.import_metadata.metrics)]
    /\ Finish("log_cross_workspace_metadata",
              <<<<"log_metadata", imp.version, "lineage", TRUE>>>>,
              log_chain(imp.import_metadata.promotion_chain))
    /\ UNCHANGED <<gate, stage, rollback_event, nver, manifest,
                   artifacts, bucket, hook, cmp, docker, race>>

\* the set_model_stage step
StepSetStage ==
    /\ Ready("set_model_stage")
    /\ LET r == set_model_stage(stage, nver, imp.version, imp.dest_stage)
       IN  /\ stage' = r.stage
           /\ Finish("set_model_stage",
                     <<<<"set_stage", imp.version, imp.dest_stage, TRUE>>>>,
                     imp.import_metadata.promotion_chain)
    /\ UNCHANGED <<gate, run_metadata, rollback_event, nver, manifest,
                   artifacts, bucket, hook, cmp, docker, race>>

\* a step raises (download, registry or storage failure): the run ends
StepFail ==
    /\ imp.pc = "running"
    /\ imp' = NoImport
    /\ last' = [last EXCEPT !.outcome = "error", !.error = "io",
                            !.chain = imp.import_metadata.promotion_chain]
    /\ UNCHANGED <<gate, stage, run_metadata, rollback_event, nver, manifest,
                   artifacts, bucket, hook, cmp, docker, race>>

Next ==
    \/ TrainingRun
    \/ CachedTrainingRun
    \/ Promote
    \/ Rollback
    \/ Export
    \/ ScriptImport
    \/ CrossWorkspace
    \/ PipelineStart
    \/ StepDownloadModel
    \/ StepDownloadScaler
    \/ StepLogMetadata
    \/ StepSetStage
    \/ StepFail

Spec == Init /\ [][Next]_vars

\* promote_model alone on the versions training runs register
NextPromote == TrainingRun \/ CachedTrainingRun \/ Promote

SpecPromote == Init /\ [][NextPromote]_vars

\* promote_model and rollback_model.  Neither rollback_model nor set_stage
\* reads a metric, so the versions are those of cached runs; promote_model
\* then moves them with --skip-validation only, which reaches every stage
\* assignment a validated promotion reaches.
NextRollback == CachedTrainingRun \/ Promote \/ Rollback

SpecRollback == Init /\ [][NextRollback]_vars

\* every operation that writes a stage: promote_model, rollback_model and
\* the cross-workspace import, on the versions of cached runs as above.  An
\* import run that a failing step ends has written the stages of a cached
\* run (it ended before set_model_stage) or those of a run that completes
\* (it ended after), so the runs here complete; has_scaler, which no stage
\* write reads, keeps its default.
NextStages ==
    \/ CachedTrainingRun
    \/ Promote
    \/ Rollback
    \/ PipelineStartDefault
    \/ StepDownloadModel
    \/ StepDownloadScaler
    \/ StepLogMetadata
    \/ StepSetStage

SpecStages == Init /\ [][NextStages]_vars

\* export, import and the import pipeline, without promotion or rollback
NextChain ==
    \/ Export
    \/ ScriptImport
    \/ PipelineStart
    \/ StepDownloadModel
    \/ StepDownloadScaler
    \/ StepLogMetadata
    \/ StepSetStage
    \/ StepFail

SpecChain == Init /\ [][NextChain]_vars

\* the same runs, with exports that may fall on the export path of the
\* export before them
NextBucket == NextChain \/ ExportSamePath

SpecBucket == Init /\ [][NextBucket]_vars

\* promote_cross_workspace.py as a whole, on the versions that completed
\* import runs register (those export_model finds a classifier on)
NextCross ==
    \/ CrossWorkspace
    \/ PipelineStartDefault
    \/ StepDownloadModel
    \/ StepDownloadScaler
    \/ StepLogMetadata
    \/ StepSetStage

SpecCross == Init /\ [][NextCross]_vars

----------------------------------------------------------------------------
(* The promotion gate alone, over every metrics map and target stage       *)

InitGate ==
    /\ gate \in [metrics : MetricsMaps, to_stage : ToStages,
                  called : {FALSE}, result : {NotCalled},
                  helper_called : {FALSE}, helper : {HelperNotCalled},
                  dest_workspace : {""}]
    /\ hook = HookIdle
    /\ cmp = CmpIdle
    /\ docker = DockerIdle
    /\ race = RaceIdle
    /\ InitRegistry

ValidateCall ==
    /\ ~gate.called
    /\ gate' = [gate EXCEPT !.called = TRUE,
                            !.result = validate_promotion(gate.metrics,
                                                          gate.to_stage)]
    /\ UNCHANGED <<stage, run_metadata, rollback_event, nver, last, manifest,
                   imp,
                   artifacts, bucket, hook, cmp, docker, race>>

NextGate == ValidateCall

SpecGate == InitGate /\ [][NextGate]_vars

----------------------------------------------------------------------------
(* The gate and the check the promotion tests run, on the same inputs      *)

HelperCall ==
    /\ ~gate.helper_called
    /\ gate' = [gate EXCEPT !.helper_called = TRUE,
                            !.helper = check_metrics_meet_requirements(
                                           gate.metrics, gate.to_stage)]
    /\ UNCHANGED <<stage, run_metadata, rollback_event, nver, last, manifest,
                   imp,
                   artifacts, bucket, hook, cmp, docker, race>>

NextMirror == ValidateCall \/ HelperCall

SpecMirror == InitGate /\ [][NextMirror]_vars

----------------------------------------------------------------------------
(* One call of a governance hook, over every hook, failure point and kind  *)
(* of failure                                                              *)

\* the failure points a hook has: the model version lookup is
\* model_governance_hook's, and so is a body after get_step_context() that a
\* missing context.model skips
HookInputs ==
    {h \in [name : Hooks, fail_at : FailPoints, kind : Kinds,
            model : BOOLEAN, called : {FALSE}, result : {"none"},
            logged : {FALSE}] :
        /\ h.fail_at = "get_model_version" => h.name = "model_governance_hook"
        /\ (h.name = "model_governance_hook" /\ ~h.model)
              => h.fail_at \in {"", "get_step_context"}
        /\ h.name # "model_governance_hook" => h.model}

InitHooks ==
    /\ hook \in HookInputs
    /\ gate = GateIdle
    /\ cmp = CmpIdle
    /\ docker = DockerIdle
    /\ race = RaceIdle
    /\ InitRegistry

HookCall ==
    /\ ~hook.called
    /\ LET r == run_hook(hook.name, hook.fail_at, hook.kind, hook.model)
       IN  hook' = [hook EXCEPT !.called = TRUE, !.result = r.result,
                                !.logged = r.logged]
    /\ UNCHANGED <<gate, stage, run_metadata, rollback_event, nver, last,
                   manifest, imp, artifacts, bucket, cmp, docker, race>>

NextHooks == HookCall

SpecHooks == InitHooks /\ [][NextHooks]_vars

----------------------------------------------------------------------------
(* One champion/challenger comparison: compare_predictions on two frames   *)
(* of the same batch, then generate_comparison_report on its result        *)

\* the frames of a batch of n rows
Frames(n) == [1..n -> Rows]

InitCompare ==
    /\ \E n \in 0..MaxSamples :
          cmp \in [champion : Frames(n), challenger : Frames(n),
                   pc : {"start"}, comparison : {NoComparison},
                   recommendation : {""}]
    /\ gate = GateIdle
    /\ hook = HookIdle
    /\ docker = DockerIdle
    /\ race = RaceIdle
    /\ InitRegistry

\* the compare_predictions step; on an empty batch .iloc[0] raises
\* IndexError and the run ends
CompareCall ==
    /\ cmp.pc = "start"
    /\ cmp' = IF cmp.champion = <<>>
              THEN [cmp EXCEPT !.pc = "failed"]
              ELSE [cmp EXCEPT !.pc = "compared",
                               !.comparison =
                                   compare_predictions(cmp.champion,
                                                       cmp.challenger)]
    /\ UNCHANGED <<gate, stage, run_metadata, rollback_event, nver, last,
                   manifest, imp, artifacts, bucket, hook, docker, race>>

\* the generate_comparison_report step
ReportCall ==
    /\ cmp.pc = "compared"
    /\ cmp' = [cmp EXCEPT !.pc = "reported",
                          !.recommendation =
                              generate_comparison_report(cmp.comparison)]
    /\ UNCHANGED <<gate, stage, run_metadata, rollback_event, nver, last,
                   manifest, imp, artifacts, bucket, hook, docker, race>>

NextCompare == CompareCall \/ ReportCall

SpecCompare == InitCompare /\ [][NextCompare]_vars

\* generate_comparison_report alone, over comparison dicts around its
\* thresholds
AgreementRates == {0, 500, 849, 850, 851, 949, 950, 951, 1000}

ProbabilityDiffs == {0, 49, 50, 51, 500, 1000}

InitReport ==
    /\ cmp \in [champion : {<<>>}, challenger : {<<>>}, pc : {"compared"},
                 comparison :
                     {[NoComparison EXCEPT !.total_samples = 1000,
                                           !.agreement_rate = Ratio(a, 1),
                                           !.avg_probability_diff = Ratio(d, 1),
                                           !.max_probability_diff = d] :
                         a \in AgreementRates, d \in ProbabilityDiffs},
                 recommendation : {""}]
    /\ gate = GateIdle
    /\ hook = HookIdle
    /\ docker = DockerIdle
    /\ race = RaceIdle
    /\ InitRegistry

NextReport == ReportCall

SpecReport == InitReport /\ [][NextReport]_vars

----------------------------------------------------------------------------
(* Properties of the promotion gate (SpecGate)                             *)

\* the minimum the spec's table gives for a stage, in thousandths
TableMinimum(to_stage) == IF to_stage = "staging" THEN 700 ELSE 800

\* the metrics of the call that are below the table's minimum
BelowMinimum ==
    {m \in RequiredSet : gate.metrics[m] < TableMinimum(gate.to_stage)}

\* C1: for a version that has accuracy, precision and recall and a target
\* stage of staging (minimum 0.70) or production (minimum 0.80),
\* validate_promotion succeeds iff every metric is >= its minimum (equal
\* passes); otherwise it raises one error whose failure list holds exactly
\* the metrics below their minimum, all of them and each once.
C1_GateThresholds ==
    (/\ gate.called
     /\ DOMAIN gate.metrics = RequiredSet
     /\ gate.to_stage \in {"staging", "production"})
    => /\ gate.result.ok <=> BelowMinimum = {}
       /\ gate.result.ok => gate.result.error = "none"
       /\ ~gate.result.ok =>
            /\ gate.result.error = "threshold"
            /\ Range(gate.result.failures) = BelowMinimum
            /\ Len(gate.result.failures) = Cardinality(BelowMinimum)

\* C1 witness: a production call with accuracy exactly at the minimum and
\* the two other metrics below it; the error lists both of them
C1_Witness ==
    /\ gate.called
    /\ gate.to_stage = "production"
    /\ gate.metrics = [m \in RequiredSet |->
                          IF m = "accuracy" THEN 800
                          ELSE IF m = "precision" THEN 799 ELSE 699]
    /\ gate.result.failures = <<"precision", "recall">>

\* C2: validate_promotion fails whenever one of accuracy, precision, recall
\* is absent, for every target stage and whatever the present values are;
\* the error names exactly the absent keys, no threshold is evaluated and
\* no absent metric shows up as a value below a minimum.
C2_MissingMetrics ==
    (gate.called /\ DOMAIN gate.metrics # RequiredSet)
    => /\ ~gate.result.ok
       /\ gate.result.error = "missing"
       /\ Range(gate.result.missing) = RequiredSet \ DOMAIN gate.metrics
       /\ Len(gate.result.missing) = Cardinality(RequiredSet \ DOMAIN gate.metrics)
       /\ gate.result.evaluated = {}
       /\ gate.result.failures = <<>>

\* C2 witness: a call for archived with a perfect accuracy and nothing else
C2_Witness ==
    /\ gate.called
    /\ gate.to_stage = "archived"
    /\ gate.metrics = [m \in {"accuracy"} |-> 1000]
    /\ gate.result.missing = <<"precision", "recall">>

----------------------------------------------------------------------------
(* Properties of promote_model (SpecPromote)                               *)

\* the versions other than v that hold stage s
OtherHolders(stg, n, v, s) == {w \in 1..n : w # v /\ stg[w] = s}

\* the step is a promote_model run that resolved its version
PromoteStep == last'.op = "promote_model" /\ last'.version # 0

C4_ForceDemotes ==
    [][(/\ PromoteStep
        /\ last'.force
        /\ last'.outcome = "ok"
        /\ last'.to_stage \in ExclusiveStages)
       => \A a \in OtherHolders(stage, nver, last'.version, last'.to_stage) :
            /\ stage'[last'.version] = last'.to_stage
            /\ stage'[a] = "archived"]_vars

\* C4 witness: a completed forced promotion that found another version in
\* the target stage; the candidate holds the stage, the other is archived
C4_Witness ==
    /\ last.op = "promote_model"
    /\ last.force
    /\ last.outcome = "ok"
    /\ last.to_stage \in ExclusiveStages
    /\ last.occupant \notin {0, last.version}
    /\ stage[last.version] = last.to_stage
    /\ stage[last.occupant] = "archived"

\* the gate's rule stated on a metrics map: all three metrics present and
\* none below the table's minimum of the stage (archived has no minimum)
MeetsTable(metrics, to_stage) ==
    /\ RequiredSet \subseteq DOMAIN metrics
    /\ to_stage \in {"staging", "production"}
         => \A m \in RequiredSet : metrics[m] >= TableMinimum(to_stage)

\* C6: without --skip-validation promote_model calls set_stage only when
\* the version's metrics pass the gate for the target stage; when they do
\* not, there is no set_stage call and the registry is unchanged.  With
\* --skip-validation no validation runs, and set_stage is called whatever
\* the metrics are, unless the occupancy check refuses.
C6_ValidationGatesPromotion ==
    [][PromoteStep
       => /\ (~last'.skip_validation /\
               ~MeetsTable(run_metadata[last'.version], last'.to_stage))
              => /\ last'.error = "validation"
                 /\ last'.calls = <<>>
                 /\ stage' = stage
          /\ (~last'.skip_validation /\ last'.calls # <<>>)
              => MeetsTable(run_metadata[last'.version], last'.to_stage)
          /\ last'.skip_validation
              => /\ last'.validation = NotCalled
                 /\ last'.calls = <<>> <=> last'.error = "conflict"]_vars

\* C6 witness: a promotion to production refused by validation because a
\* metric is below 0.80, the registry untouched
C6_Witness ==
    /\ last.op = "promote_model"
    /\ ~last.skip_validation
    /\ last.to_stage = "production"
    /\ last.error = "validation"
    /\ last.validation.failures = <<"accuracy">>
    /\ last.calls = <<>>
    /\ stage[last.version] # "production"

\* C7: promote_model refuses for conflict only when a version other than
\* the candidate holds the stage named by --to-stage; the holder of any
\* other stage never causes a refusal.
C7_ConflictOnlyForTargetStage ==
    (last.op = "promote_model" /\ last.error = "conflict")
    => OtherHolders(stage, nver, last.version, last.to_stage) # {}

----------------------------------------------------------------------------
(* Properties of the stage assignment (SpecStages)                         *)

\* C5: after any sequence of promote_model, rollback_model and import
\* runs on the model name, forced or not, successful or failed, at most one
\* version is in staging and at most one is in production.
C5_OneVersionPerStage ==
    \A s \in ExclusiveStages : Cardinality(InStage(stage, nver, s)) <= 1

\* C5 witness: an import run has completed and put its new version in the
\* stage another version held, which is now archived
C5_Witness ==
    /\ last.op = "import_model_pipeline"
    /\ last.outcome = "ok"
    /\ stage[last.version] = last.to_stage
    /\ \E v \in 1..nver : v # last.version /\ stage[v] = "archived"

----------------------------------------------------------------------------
(* Properties of rollback_model (SpecRollback)                             *)

\* C8: rollback_model is atomic: when one of its steps fails (archiving
\* the production version, promoting the target, logging the metadata), no
\* version's stage has changed.
C8_RollbackAtomic ==
    [][(last'.op = "rollback_model" /\ last'.outcome = "error")
       => stage' = stage]_vars

\* C9: rollback_model --dry-run makes no registry write in any registry
\* state: it calls neither set_stage nor log_metadata, and every version's
\* stage and metadata are the same when it returns.
C9_DryRunWritesNothing ==
    [][(last'.op = "rollback_model" /\ last'.dry_run)
       => /\ last'.calls = <<>>
          /\ stage' = stage
          /\ rollback_event' = rollback_event
          /\ run_metadata' = run_metadata]_vars

\* C9 witness: a dry run that got as far as its rollback plan (a production
\* version and a different target) and returned
C9_Witness ==
    /\ last.op = "rollback_model"
    /\ last.dry_run
    /\ last.outcome = "ok"
    /\ last.version # 0
    /\ stage[last.version] # "production"
    /\ InStage(stage, nver, "production") # {}
    /\ ~rollback_event[last.version]

----------------------------------------------------------------------------
(* Properties of the promotion chain (SpecChain)                           *)

\* a is an initial segment of b
IsPrefix(a, b) == Len(a) <= Len(b) /\ SubSeq(b, 1, Len(a)) = a

\* the chain held by the import run that is running or has just ended
RunChain == imp.import_metadata.promotion_chain

RunChainNext ==
    IF imp'.pc = "running" THEN imp'.import_metadata.promotion_chain
    ELSE last'.chain

\* export creates the chain with exactly one "exported" entry
ExportCreatesChain ==
    (manifest' # manifest /\ manifest' # NoManifest)
    => /\ Len(manifest'.promotion_chain) = 1
       /\ manifest'.promotion_chain[1].action = "exported"

\* import_model appends exactly one "imported" entry to the exported chain
ImportAppendsOne ==
    (last'.op = "import_model" /\ last'.error # "no_manifest")
    => /\ Len(last'.chain) = Len(manifest.promotion_chain) + 1
       /\ IsPrefix(manifest.promotion_chain, last'.chain)
       /\ last'.chain[Len(last'.chain)].action = "imported"

SameOrCompleted(old, new) ==
    \/ new = old
    \/ /\ old.action = "imported"
       /\ new = [old EXCEPT !.import_run_url = TRUE]

----------------------------------------------------------------------------
(* Properties of the metrics carried across workspaces (SpecChain)         *)

\* the running import was given the manifest of the latest export, as
\* exported or with the import entry appended
ImportsLatestExport ==
    /\ manifest # NoManifest
    /\ imp.import_metadata.source_version = manifest.source_version
    /\ imp.import_metadata.metrics = manifest.metrics
    /\ IsPrefix(manifest.promotion_chain, RunChain)

\* the step log_cross_workspace_metadata of the running import completes
LogStepTaken ==
    /\ imp.pc = "running"
    /\ "log_cross_workspace_metadata" \notin imp.done
    /\ imp'.pc = "running"
    /\ "log_cross_workspace_metadata" \in imp'.done

----------------------------------------------------------------------------
(* Properties of export_model (SpecChain)                                  *)

\* C12: export_model raises a hard error when the source version has no
\* classifier artifact, and then nothing has been uploaded to the exchange
\* bucket; a missing scaler is not an error: the export completes with the
\* classifier blob and the manifest, no scaler blob, and a null scaler
\* location in the manifest.
C12_ClassifierRequiredScalerOptional ==
    [][(last'.op = "export_model" /\ last'.version # 0)
       => LET mv == last'.version
          IN  /\ "sklearn_classifier" \notin artifacts[mv]
                   => /\ last'.outcome = "error"
                      /\ last'.error = "no_model_artifact"
                      /\ last'.calls = <<>>
                      /\ bucket' = bucket
                      /\ manifest' = manifest
              /\ ("sklearn_classifier" \in artifacts[mv]
                    /\ "scaler" \notin artifacts[mv])
                   => /\ last'.error # "no_model_artifact"
                      /\ last'.outcome = "ok"
                           => /\ bucket' = {"model.joblib", "manifest.json"}
                              /\ manifest'.source_version = mv
                              /\ manifest'.artifacts = {"model"}]_vars

\* C12 witness: a version without scaler was exported completely (classifier
\* blob and manifest, no scaler location), and a later export of a version
\* without classifier has failed and left that export as it was
C12_Witness ==
    /\ last.op = "export_model"
    /\ last.error = "no_model_artifact"
    /\ "sklearn_classifier" \notin artifacts[last.version]
    /\ manifest # NoManifest
    /\ manifest.source_version # last.version
    /\ "scaler" \notin artifacts[manifest.source_version]
    /\ manifest.artifacts = {"model"}
    /\ bucket = {"model.joblib", "manifest.json"}

----------------------------------------------------------------------------
(* Properties of the import's stage assignment (SpecChain)                 *)

\* the step set_model_stage of the running import completes
SetStageTaken ==
    /\ imp.pc = "running"
    /\ "set_model_stage" \notin imp.done
    /\ \/ imp'.pc = "running" /\ "set_model_stage" \in imp'.done
       \/ imp'.pc = "idle" /\ last'.outcome = "ok"

\* C13: the import sets the newly registered destination version to the
\* requested stage (staging or production) unconditionally: whatever the
\* metrics of the version are, set_model_stage puts it in the stage, and,
\* being forced, displaces whichever version occupied that stage.
C13_ImportStageUnconditional ==
    [][SetStageTaken
       => /\ imp.dest_stage \in DestStages
          /\ stage'[imp.version] = imp.dest_stage
          /\ \A v \in 1..nver :
                v # imp.version
                => stage'[v] = IF stage[v] = imp.dest_stage THEN "archived"
                               ELSE stage[v]]_vars

\* C13 witness: a completed import has put in production a version whose
\* logged metrics fail the production gate, and the version that held
\* production before is archived
C13_Witness ==
    /\ last.op = "import_model_pipeline"
    /\ last.outcome = "ok"
    /\ last.to_stage = "production"
    /\ stage[last.version] = "production"
    /\ has_required_metrics(run_metadata[last.version])
    /\ ~validate_promotion(run_metadata[last.version], "production").ok
    /\ \E v \in 1..nver : v # last.version /\ stage[v] = "archived"

----------------------------------------------------------------------------
(* Properties of promote_cross_workspace.py as a whole (SpecCross)         *)

\* the positions of the calls of a run that satisfy a test
CallsWhere(run, Test(_)) == {i \in 1..Len(run.calls) : Test(run.calls[i])}

IsUpload(call) == call[1] = "upload"

IsValidation(call) == call[1] = "validate_for_promotion"

IsImport(call) == call[1] = "import_model"

IsSourceConnect(call) == call[1] = "connect_to_workspace" /\ ~call[4]

IsDestConnect(call) == call[1] = "connect_to_workspace" /\ call[4]

\* the run ended in its export phase or while loading the manifest
EndedBeforeValidation(run) ==
    \/ run.error \in {"usage", "not_found", "no_model_artifact", "io",
                      "no_manifest"}
    \/ "export_only" \in run.flags /\ "import_from" \notin run.flags

\* the registry is left as it was
RegistryUnchanged ==
    /\ nver' = nver
    /\ stage' = stage
    /\ run_metadata' = run_metadata
    /\ artifacts' = artifacts

\* C14: in promote_cross_workspace, when a destination workspace is given
\* and --skip-validation is not, the manifest's metrics are validated before
\* any import step: if validation fails, the destination workspace is never
\* connected to and no version is registered or staged there.  With
\* --skip-validation the import proceeds whatever the metrics are.
C14_ValidationBeforeImport ==
    [][(/\ last'.op = "promote_cross_workspace"
        /\ "dest_workspace" \in last'.flags
        /\ ~EndedBeforeValidation(last'))
       => LET run == last'
              validations == CallsWhere(run, IsValidation)
              imports == CallsWhere(run, IsImport)
                             \cup CallsWhere(run, IsDestConnect)
          IN  /\ ~run.skip_validation
                   => /\ run.validation # NotCalled
                      /\ validations # {}
                      /\ \A i \in imports : \E j \in validations : j < i
                      /\ ~run.validation.ok
                           => /\ run.outcome = "error"
                              /\ run.error = "validation"
                              /\ imports = {}
                              /\ RegistryUnchanged
              /\ run.skip_validation
                   => /\ run.validation = NotCalled
                      /\ validations = {}
                      /\ CallsWhere(run, IsImport) # {}
                      /\ CallsWhere(run, IsDestConnect) # {}]_vars

\* C14 witness: a run without --import-from and --skip-validation exported a
\* version whose recall is below the production minimum, validated the
\* manifest for enterprise-production, and ended there
C14_Witness ==
    /\ last.op = "promote_cross_workspace"
    /\ "dest_workspace" \in last.flags
    /\ "import_from" \notin last.flags
    /\ ~last.skip_validation
    /\ last.error = "validation"
    /\ last.validation.failures = <<"recall">>
    /\ manifest.source_version = last.version
    /\ "manifest.json" \in bucket
    /\ CallsWhere(last, IsUpload) # {}
    /\ CallsWhere(last, IsValidation) # {}
    /\ CallsWhere(last, IsDestConnect) = {}

\* C20: promote_cross_workspace runs its phases in a fixed order chosen by
\* the flags: with --export-only it exports and stops (no validation, no
\* connection to a destination workspace, no import); with --import-from it
\* performs no export (connects to no source workspace and uploads nothing)
\* and, given a destination, imports from the manifest; with neither flag it
\* exports first and imports afterwards, never the reverse.
C20_PhasesChosenByFlags ==
    [][last'.op = "promote_cross_workspace"
       => LET run == last'
              exports == CallsWhere(run, IsSourceConnect)
                             \cup CallsWhere(run, IsUpload)
              imports == CallsWhere(run, IsDestConnect)
                             \cup CallsWhere(run, IsImport)
          IN  /\ "export_only" \in run.flags
                   => /\ CallsWhere(run, IsValidation) = {}
                      /\ imports = {}
              /\ "import_from" \in run.flags
                   => /\ exports = {}
                      /\ bucket' = bucket
                      /\ manifest' = manifest
              /\ \A i \in imports : \A j \in exports : j < i]_vars

----------------------------------------------------------------------------
(* Properties of the governance hooks (SpecHooks)                          *)

----------------------------------------------------------------------------
(* Properties of the gate across stages (SpecGate)                         *)

\* every metric of the call is at least 0.70 and below 0.80
AllBetweenMinimums ==
    /\ DOMAIN gate.metrics = RequiredSet
    /\ \A m \in RequiredSet : 700 <= gate.metrics[m] /\ gate.metrics[m] < 800

\* C16: any metrics map that passes the promotion gate for production also
\* passes it for staging; the converse does not hold: a map with all metrics
\* in [0.70, 0.80) passes staging and fails production.
C16_ProductionImpliesStaging ==
    /\ (gate.called /\ gate.to_stage = "production" /\ gate.result.ok)
         => validate_promotion(gate.metrics, "staging").ok
    /\ (gate.called /\ gate.to_stage = "staging" /\ AllBetweenMinimums)
         => /\ gate.result.ok
            /\ ~validate_promotion(gate.metrics, "production").ok

\* C16 witness: the gate has passed, for production, a map with a metric
\* exactly at the production minimum
C16_Witness ==
    /\ gate.called
    /\ gate.to_stage = "production"
    /\ gate.result.ok
    /\ \E m \in RequiredSet : gate.metrics[m] = 800
    /\ validate_promotion(gate.metrics, "staging").ok

----------------------------------------------------------------------------
(* Properties of the comparison report (SpecReport)                        *)

\* the recommendations of the report
Recommendations == {"SAFE TO PROMOTE", "REVIEW RECOMMENDED", "CAUTION"}

\* the comparison's agreement rate and average probability difference as
\* exact comparisons with a value in thousandths
AgreementAtLeast(t) ==
    cmp.comparison.agreement_rate.num >= t * cmp.comparison.agreement_rate.den

ProbDiffBelow(t) ==
    cmp.comparison.avg_probability_diff.num
        < t * cmp.comparison.avg_probability_diff.den

----------------------------------------------------------------------------
(* Properties of compare_predictions (SpecCompare)                         *)

\* the positions at which the two frames predict the same class
EqualPositions ==
    {i \in 1..Len(cmp.champion) :
        cmp.champion[i].prediction = cmp.challenger[i].prediction}

\* the absolute probability difference at a position, in thousandths
ProbDiffAt(i) ==
    LET d == cmp.champion[i].probability - cmp.challenger[i].probability
    IN  IF d < 0 THEN 0 - d ELSE d

\* the sum of the absolute probability differences of the first k positions
RECURSIVE ProbDiffSum(_)
ProbDiffSum(k) == IF k = 0 THEN 0 ELSE ProbDiffAt(k) + ProbDiffSum(k - 1)

\* C18: compare_predictions, over two equal-length non-empty
\* prediction/probability sequences for the same batch, returns
\* agreement_rate = (number of positions with equal predictions) / n,
\* avg_probability_diff = mean of the absolute probability differences and
\* max_probability_diff = their maximum; identical sequences give
\* agreement_rate 1.0 and avg_probability_diff 0.0, and so the
\* recommendation SAFE TO PROMOTE.
C18_ComparisonMetrics ==
    LET n == Len(cmp.champion)
        c == cmp.comparison
    IN  /\ (cmp.pc \in {"compared", "reported"})
             => /\ n > 0
                /\ Len(cmp.challenger) = n
                /\ c.agreement_rate.den > 0
                /\ c.agreement_rate.num * n
                       = 1000 * Cardinality(EqualPositions)
                             * c.agreement_rate.den
                /\ c.avg_probability_diff.den > 0
                /\ c.avg_probability_diff.num * n
                       = ProbDiffSum(n) * c.avg_probability_diff.den
                /\ \A i \in 1..n : ProbDiffAt(i) <= c.max_probability_diff
                /\ \E i \in 1..n : ProbDiffAt(i) = c.max_probability_diff
                /\ cmp.champion = cmp.challenger
                     => /\ c.agreement_rate.num = 1000 * c.agreement_rate.den
                        /\ c.avg_probability_diff.num = 0
        /\ (cmp.pc = "reported" /\ cmp.champion = cmp.challenger)
             => cmp.recommendation = "SAFE TO PROMOTE"

\* C18 witness: two frames that differ in one prediction out of two, compared
\* and reported
C18_Witness ==
    /\ cmp.pc = "reported"
    /\ Len(cmp.champion) = 2
    /\ Cardinality(EqualPositions) = 1
    /\ cmp.comparison.agreement_rate = Ratio(1000, 2)
    /\ cmp.comparison.avg_probability_diff.num > 0
    /\ cmp.recommendation = "CAUTION"

----------------------------------------------------------------------------
(* Properties of get_previous_production_version (SpecRollback)            *)

\* no operation gives a version the stage none: a version that has it has
\* had it since it was registered
StageNoneIsInitial ==
    [][\A v \in Versions : stage'[v] = "none" => stage[v] = "none"]_vars

\* hence a version whose stage is none has never been in production
NeverInProduction(v) == stage[v] = "none"

\* C19: get_previous_production_version returns the most recent version
\* below the current production version that was previously in production;
\* it never returns a version that has never been in production, and
\* returns None when no such version exists.  (Stated on the versions the
\* registry state tells to have never been in production: those whose stage
\* is none.)
C19_PreviousWasInProduction ==
    LET current == get_model_version_by_stage(stage, nver, "production")
        previous == get_previous_production_version(stage, nver, current)
    IN  current # 0
        => /\ previous # 0
                => previous < current /\ ~NeverInProduction(previous)
           /\ (\A v \in 1..nver : v < current => NeverInProduction(v))
                => previous = 0

----------------------------------------------------------------------------
(* One call of get_docker_settings, over bases and extras                  *)

ExtraAptPackages == {<<>>, <<"ffmpeg">>, <<"ffmpeg", "libsndfile1">>,
                     <<"libsm6">>}

ExtraIntegrations == {<<>>, <<"huggingface">>, <<"huggingface", "wandb">>,
                      <<"sklearn">>}

ExtraRequirements == {<<>>, <<"transformers">>,
                      <<"transformers>=4.30.0", "datasets">>}

ExtraEnvironments ==
    {[k \in {} |-> ""],
     [k \in {"MY_CUSTOM_VAR"} |-> "value"],
     [k \in {"PYTHONUNBUFFERED"} |-> "0"],
     [k \in {"PYTHONUNBUFFERED"} |-> "1"],
     [k \in {"HF_HOME", "CUDA_VISIBLE_DEVICES"} |->
        IF k = "HF_HOME" THEN "/cache" ELSE "1"]}

ParentImages == {"", "custom/image:latest"}

InitDocker ==
    /\ docker \in [base : BaseNames \cup {"invalid"},
                    extra_apt_packages : ExtraAptPackages,
                    extra_integrations : ExtraIntegrations,
                    extra_requirements : ExtraRequirements,
                    extra_environment : ExtraEnvironments,
                    parent_image : ParentImages,
                    called : {FALSE}, error : {"none"},
                    settings : {NoSettings}]
    /\ gate = GateIdle
    /\ hook = HookIdle
    /\ cmp = CmpIdle
    /\ race = RaceIdle
    /\ InitRegistry

DockerCall ==
    /\ ~docker.called
    /\ LET r == get_docker_settings(docker.base, docker.extra_apt_packages,
                                    docker.extra_integrations,
                                    docker.extra_requirements,
                                    docker.extra_environment,
                                    docker.parent_image)
       IN  docker' = [docker EXCEPT !.called = TRUE, !.error = r.error,
                                    !.settings = r.settings]
    /\ UNCHANGED <<gate, stage, run_metadata, rollback_event, nver, last,
                   manifest, imp, artifacts, bucket, hook, cmp, race>>

NextDocker == DockerCall

SpecDocker == InitDocker /\ [][NextDocker]_vars

----------------------------------------------------------------------------
(* promote_model given neither --version nor --from-stage, over registries *)
(* whose versions have all, some or none of the required metrics           *)

\* run_metadata of a listed version: any of the required metrics present,
\* all above or all below the staging minimum
ListedMetadata ==
    UNION {[D -> {x}] : D \in SUBSET RequiredSet, x \in {650, 850}}

InitLatest ==
    /\ gate = GateIdle
    /\ hook = HookIdle
    /\ cmp = CmpIdle
    /\ docker = DockerIdle
    /\ race = RaceIdle
    /\ nver \in 0..MaxVersions
    /\ run_metadata \in [Versions -> ListedMetadata]
    /\ \A v \in Versions : v > nver => run_metadata[v] = [m \in {} |-> 0]
    /\ stage = [v \in Versions |-> "none"]
    /\ rollback_event = [v \in Versions |-> FALSE]
    /\ last = NoRun
    /\ manifest = NoManifest
    /\ imp = NoImport
    /\ artifacts = [v \in Versions |-> {}]
    /\ bucket = {}

\* python scripts/promote_model.py --model .. --to-stage .. [--force]
\* [--skip-validation]
PromoteLatest ==
    /\ imp.pc = "idle"
    /\ \E to_stage \in ToStages, force \in BOOLEAN,
          skip_validation \in BOOLEAN, io_fail \in BOOLEAN :
          LET mv == resolve_version(stage, run_metadata, nver, 0, "")
              r == promote_model(stage, run_metadata, nver, mv, to_stage,
                                 force, skip_validation, io_fail)
          IN  /\ stage' = r.stage
              /\ last' = r.out
    /\ UNCHANGED <<gate, run_metadata, rollback_event, nver, manifest, imp,
                   artifacts, bucket, hook, cmp, docker, race>>

NextLatest == PromoteLatest

SpecLatest == InitLatest /\ [][NextLatest]_vars

----------------------------------------------------------------------------
(* Two concurrent runs of promote_model --version v on one registry; each  *)
(* remote call of a run is one step, the steps of the two runs interleave  *)

\* the registry the two runs start on: MaxVersions trained versions, none
\* in a stage; version 1 is below the staging minimum on recall
InitRace ==
    /\ gate = GateIdle
    /\ hook = HookIdle
    /\ cmp = CmpIdle
    /\ docker = DockerIdle
    /\ race = RaceIdle
    /\ nver = MaxVersions
    /\ run_metadata =
          [v \in Versions |->
              [m \in RequiredSet |->
                  IF v = 1 /\ m = "recall" THEN 699 ELSE 850]]
    /\ stage = [v \in Versions |-> "none"]
    /\ rollback_event = [v \in Versions |-> FALSE]
    /\ last = NoRun
    /\ manifest = NoManifest
    /\ imp = NoImport
    /\ artifacts = [v \in Versions |-> TrainedArtifacts]
    /\ bucket = {}

\* a run from its start to the end of its occupancy check: the lookup of
\* the version, the validation and the read of the target stage's holder
RunCheck(p) ==
    /\ race[p].pc = "idle"
    /\ \E version \in 1..MaxVersions, to_stage \in ToStages,
          force \in BOOLEAN, skip_validation \in BOOLEAN :
          LET mv == get_model_version_by_number(nver, version)
              val == run_validation(run_metadata, mv, to_stage,
                                    skip_validation)
              error == IF val.error \in {"missing", "threshold"}
                       THEN "validation"
                       ELSE IF occupancy_conflict(stage, nver, mv, to_stage,
                                                  force)
                       THEN "conflict" ELSE "none"
          IN  race' = [race EXCEPT ![p] =
                         [pc |-> IF error = "none" THEN "checked" ELSE "done",
                          version |-> mv, to_stage |-> to_stage,
                          force |-> force, skip_validation |-> skip_validation,
                          occupant |-> IF error = "validation" THEN 0
                                       ELSE current_model_in_stage(
                                                stage, nver, to_stage),
                          error |-> error]]
    /\ UNCHANGED <<gate, stage, run_metadata, rollback_event, nver, last,
                   manifest, imp, artifacts, bucket, hook, cmp, docker>>

\* the run's stage write, on the registry as it is by then
RunWrite(p) ==
    /\ race[p].pc = "checked"
    /\ LET r == write_stage(stage, nver, race[p].version, race[p].to_stage,
                            race[p].force)
       IN  /\ stage' = r.stage
           /\ race' = [race EXCEPT ![p].pc = "done",
                                   ![p].error = IF r.ok THEN "none"
                                                ELSE "registry"]
    /\ UNCHANGED <<gate, run_metadata, rollback_event, nver, last, manifest,
                   imp, artifacts, bucket, hook, cmp, docker>>

NextRace == \E p \in Runs : RunCheck(p) \/ RunWrite(p)

SpecRace == InitRace /\ [][NextRace]_vars

----------------------------------------------------------------------------
(* validate_for_promotion alone, over every metrics map of a manifest and  *)
(* every destination workspace the command line accepts                     *)

InitDest ==
    /\ gate \in [metrics : MetricsMaps, to_stage : {""},
                  called : {FALSE}, result : {NotCalled},
                  helper_called : {FALSE}, helper : {HelperNotCalled},
                  dest_workspace : Workspaces]
    /\ hook = HookIdle
    /\ cmp = CmpIdle
    /\ docker = DockerIdle
    /\ race = RaceIdle
    /\ InitRegistry

ValidateForPromotionCall ==
    /\ ~gate.called
    /\ gate' = [gate EXCEPT !.called = TRUE,
                            !.result = validate_for_promotion(
                                           gate.metrics, gate.dest_workspace)]
    /\ UNCHANGED <<stage, run_metadata, rollback_event, nver, last, manifest,
                   imp, artifacts, bucket, hook, cmp, docker, race>>

NextDest == ValidateForPromotionCall

SpecDest == InitDest /\ [][NextDest]_vars

----------------------------------------------------------------------------
(* Properties of the tested threshold check (SpecMirror)                   *)

\* C21: for every metrics map, with each of accuracy, precision, recall
\* present or absent, and every stage in {staging, production}, the check
\* the promotion tests exercise passes if and only if validate_promotion
\* succeeds.
C21_HelperMirrorsGate ==
    (gate.called /\ gate.helper_called
       /\ gate.to_stage \in {"staging", "production"})
      => (gate.helper.passes <=> gate.result.ok)

\* C21 witness: both have rejected, for staging, a map that lacks recall and
\* whose other metrics are above the minimum
C21_Witness ==
    /\ gate.called
    /\ gate.helper_called
    /\ gate.to_stage = "staging"
    /\ DOMAIN gate.metrics = {"accuracy", "precision"}
    /\ \A m \in DOMAIN gate.metrics : gate.metrics[m] >= 700
    /\ ~gate.helper.passes
    /\ ~gate.result.ok

----------------------------------------------------------------------------
(* Properties of get_docker_settings (SpecDocker)                          *)

DockerReturned == docker.called /\ docker.error = "none"

\* every apt package and integration of the base and of the extras, and
\* every extra requirement, is in the returned settings
ListsContainBaseAndExtras ==
    LET b == base_configs(docker.base)
        s == docker.settings
    IN  /\ Range(b.apt_packages) \cup Range(docker.extra_apt_packages)
             \subseteq Range(s.apt_packages)
        /\ Range(b.required_integrations)
             \cup Range(docker.extra_integrations)
             \subseteq Range(s.required_integrations)
        /\ Range(docker.extra_requirements) \subseteq Range(s.requirements)

\* every extra environment variable is in the returned settings with the
\* value passed in
ExtraEnvironmentKept ==
    \A k \in DOMAIN docker.extra_environment :
        /\ k \in DOMAIN docker.settings.environment
        /\ docker.settings.environment[k] = docker.extra_environment[k]

\* the environment variables of the base, except those in skip, are in the
\* returned settings with the base's value
BaseEnvironmentKept(skip) ==
    LET b == base_configs(docker.base)
    IN  \A k \in DOMAIN b.environment \ skip :
            /\ k \in DOMAIN docker.settings.environment
            /\ docker.settings.environment[k] = b.environment[k]

\* C22: get_docker_settings(base, extras) returns settings whose apt
\* packages, required integrations and environment contain every apt
\* package, integration and environment variable (with its value) of the
\* chosen base configuration, plus every extra package, integration,
\* requirement and environment variable passed in.
C22_ContainsBaseAndExtras ==
    DockerReturned
      => /\ ListsContainBaseAndExtras
         /\ ExtraEnvironmentKept
         /\ BaseEnvironmentKept({})

\* C22 as the function behaves: an environment variable of the base keeps
\* the base's value unless extra_environment has a variable of the same
\* name, whose value then replaces it; everything else as stated.
C22_ExtrasOverrideBaseEnvironment ==
    DockerReturned
      => /\ ListsContainBaseAndExtras
         /\ ExtraEnvironmentKept
         /\ BaseEnvironmentKept(DOMAIN docker.extra_environment)
         /\ DOMAIN docker.settings.environment =
                DOMAIN base_configs(docker.base).environment
                \cup DOMAIN docker.extra_environment

\* C22 witness: a call on the gpu base with extras of every kind, among
\* them an environment variable the base also sets, to another value
C22_Witness ==
    /\ DockerReturned
    /\ docker.base = "gpu"
    /\ docker.extra_apt_packages # <<>>
    /\ docker.extra_integrations # <<>>
    /\ docker.extra_requirements # <<>>
    /\ "CUDA_VISIBLE_DEVICES" \in DOMAIN docker.extra_environment
    /\ docker.settings.environment["CUDA_VISIBLE_DEVICES"] = "1"
    /\ docker.settings.environment["PYTHONUNBUFFERED"] = "1"
    /\ Len(docker.settings.apt_packages) > 3

----------------------------------------------------------------------------
(* Properties of a completed or aborted rollback (SpecRollback)            *)

\* the step is a rollback_model run that was not a dry run and completed
RollbackCompletes ==
    /\ last'.op = "rollback_model"
    /\ last'.outcome = "ok"
    /\ ~last'.dry_run

\* C23: a rollback_model run that completes (no --dry-run) performs its
\* writes in this order: set the current production version to archived,
\* then set the rollback target to production, then log the rollback_event
\* metadata on the target; when it returns, the target is the only version
\* in production and the former production version is archived.
C23_RollbackWriteOrder ==
    [][RollbackCompletes
       => LET current_prod == get_model_version_by_stage(stage, nver,
                                                         "production")
              rollback_target == last'.version
          IN  /\ current_prod # 0
              /\ rollback_target \in (1..nver) \ {current_prod}
              /\ last'.calls =
                    <<<<"set_stage", current_prod, "archived", TRUE>>,
                      <<"set_stage", rollback_target, "production", TRUE>>,
                      <<"log_metadata", rollback_target, "rollback_event",
                        TRUE>>>>
              /\ InStage(stage', nver, "production") = {rollback_target}
              /\ stage'[current_prod] = "archived"
              /\ rollback_event'[rollback_target]]_vars

\* C23 witness: a completed rollback has made its three writes and left
\* its target alone in production, the other version archived
C23_Witness ==
    /\ last.op = "rollback_model"
    /\ last.outcome = "ok"
    /\ ~last.dry_run
    /\ Len(last.calls) = 3
    /\ InStage(stage, nver, "production") = {last.version}
    /\ rollback_event[last.version]
    /\ \E v \in 1..nver : v # last.version /\ stage[v] = "archived"

\* the step is a rollback_model run that leaves the registry as it was and
\* has called neither set_stage nor log_metadata
RollbackWritesNothing ==
    /\ last'.calls = <<>>
    /\ stage' = stage
    /\ rollback_event' = rollback_event
    /\ run_metadata' = run_metadata

\* C24: rollback_model aborts without any registry write in each of these
\* cases: no version is in production; no --to-version is given and no
\* previous version can be found; the rollback target is the version
\* currently in production.
C24_AbortsWriteNothing ==
    [][last'.op = "rollback_model"
       => LET current_prod == get_model_version_by_stage(stage, nver,
                                                         "production")
          IN  /\ current_prod = 0
                   => /\ last'.outcome = "abort"
                      /\ last'.error = "no_production"
                      /\ RollbackWritesNothing
              /\ (current_prod # 0 /\ last'.version = current_prod)
                   => /\ last'.outcome = "abort"
                      /\ last'.error = "same_version"
                      /\ RollbackWritesNothing
              /\ last'.error = "no_previous"
                   => /\ last'.outcome = "abort"
                      /\ current_prod # 0
                      /\ get_previous_production_version(stage, nver,
                                                         current_prod) = 0
                      /\ RollbackWritesNothing
              /\ last'.outcome = "abort"
                   => last'.error \in {"no_production", "same_version",
                                       "no_previous"}]_vars

\* C24 witness: a run without --dry-run has aborted because its target is
\* the version in production, which is still there
C24_Witness ==
    /\ last.op = "rollback_model"
    /\ ~last.dry_run
    /\ last.outcome = "abort"
    /\ last.error = "same_version"
    /\ last.version # 0
    /\ stage[last.version] = "production"
    /\ ~rollback_event[last.version]

----------------------------------------------------------------------------
(* Properties of the order of the import pipeline's steps (SpecChain)      *)

\* C25: in the import pipeline the new destination version is set to the
\* destination stage only after the classifier artifact (and the scaler,
\* when the export has one) has been registered on it and its source
\* metrics and lineage metadata have been logged, in every execution order
\* the pipeline's step dependencies allow.
C25_StageAfterArtifactsAndMetadata ==
    [][SetStageTaken
       => /\ "log_cross_workspace_metadata" \in imp.done
          /\ "download_and_register_model" \in imp.done
          /\ "sklearn_classifier" \in artifacts[imp.version]
          /\ imp.has_scaler
               => /\ "download_and_register_scaler" \in imp.done
                  /\ "scaler" \in artifacts[imp.version]]_vars

----------------------------------------------------------------------------
(* Properties of find_latest_with_metrics (SpecLatest)                     *)

\* the versions whose metadata has all of accuracy, precision and recall
WithAllMetrics ==
    {v \in 1..nver : RequiredSet \subseteq DOMAIN run_metadata[v]}

\* C26: find_latest_with_metrics returns the highest-numbered listed
\* version whose metadata has all of accuracy, precision and recall,
\* skipping any higher-numbered version that lacks one of them, and raises
\* ValueError when no listed version has all three; so a promote_model run
\* given neither --version nor --from-stage never fails validation because
\* of missing metrics.
C26_LatestWithMetrics ==
    /\ find_latest_with_metrics(run_metadata, nver) =
          IF WithAllMetrics = {} THEN 0
          ELSE CHOOSE v \in WithAllMetrics : \A w \in WithAllMetrics : w <= v
    /\ last.op = "promote_model"
         => /\ last.version = find_latest_with_metrics(run_metadata, nver)
            /\ last.version = 0
                 => last.outcome = "error" /\ last.validation = NotCalled
            /\ last.validation.error # "missing"
            /\ last.validation.missing = <<>>

\* C26 witness: the run has validated and promoted version 1, which has the
\* three metrics, although version 2 exists and has only two of them
C26_Witness ==
    /\ last.op = "promote_model"
    /\ last.outcome = "ok"
    /\ ~last.skip_validation
    /\ last.validation.ok
    /\ last.version = 1
    /\ nver >= 2
    /\ DOMAIN run_metadata[2] = {"accuracy", "precision"}
    /\ stage[1] = last.to_stage

----------------------------------------------------------------------------
(* Properties of two concurrent promotions (SpecRace)                      *)

\* run p has passed its occupancy check having found the stage unoccupied
PassedUnoccupied(p) ==
    /\ race[p].pc \in {"checked", "done"}
    /\ race[p].error \in {"none", "registry"}
    /\ race[p].occupant = 0

\* the two runs promote different versions, unforced, into the same
\* exclusive stage, and both passed the occupancy check on the stage
\* unoccupied
BothPassedSameStage ==
    /\ \A p \in Runs : PassedUnoccupied(p) /\ ~race[p].force
    /\ race[1].version # race[2].version
    /\ race[1].to_stage = race[2].to_stage
    /\ race[1].to_stage \in ExclusiveStages

\* C27: promote_model does not guard against concurrent invocations: with
\* two concurrent non-forced promotions of different versions into the
\* same unoccupied stage, an interleaving exists in which both pass the
\* script's occupancy check (neither sees the other) and both go on to the
\* stage write, so only the registry's own check on set_stage decides the
\* outcome.  As an invariant: whenever both have passed the check, nothing
\* in the script stops either from writing, and once both have written,
\* exactly one write was refused, by the registry, and the other version
\* holds the stage.
C27_RaceDecidedByRegistry ==
    BothPassedSameStage
      => /\ \A p \in Runs : race[p].pc = "checked" => ENABLED RunWrite(p)
         /\ (\A p \in Runs : race[p].pc = "done")
              => \E p \in Runs :
                    /\ race[p].error = "none"
                    /\ race[3 - p].error = "registry"
                    /\ InStage(stage, nver, race[p].to_stage)
                         = {race[p].version}

\* C27 witness: both runs passed the occupancy check without seeing the
\* other, both wrote, and the registry refused the second write
C27_Witness ==
    /\ BothPassedSameStage
    /\ \A p \in Runs : race[p].pc = "done"
    /\ race[1].to_stage = "production"
    /\ race[1].error = "registry"
    /\ race[2].error = "none"
    /\ stage[race[2].version] = "production"
    /\ stage[race[1].version] = "none"

----------------------------------------------------------------------------
(* Properties of the destination gate (SpecDest)                           *)

\* C28: for every destination workspace that promote_cross_workspace
\* accepts on its command line (enterprise-dev-staging,
\* enterprise-production), validate_for_promotion applies a non-empty set
\* of minimums to the manifest's accuracy, precision and recall and rejects
\* a manifest in which any of them is missing or below its minimum; no
\* accepted destination lets a manifest through unchecked.
C28_EveryDestinationChecked ==
    (gate.called /\ gate.dest_workspace \in Workspaces)
      => /\ gate.result.evaluated = RequiredSet
         /\ \A m \in RequiredSet :
               workspace_requirements(gate.dest_workspace)[m] > 0
         /\ (\E m \in RequiredSet :
                \/ m \notin DOMAIN gate.metrics
                \/ gate.metrics[m]
                     < workspace_requirements(gate.dest_workspace)[m])
              => ~gate.result.ok

----------------------------------------------------------------------------
(* Properties of the exchange bucket (SpecBucket)                          *)

\* the uploads of the export that ended last, in order
UploadedBlobs == [i \in 1..Len(last.calls) |-> last.calls[i][3]]

\* C29: in every state of the exchange bucket reachable through
\* export_model, including states left by an export that failed part-way,
\* a manifest.json present under an export path implies that model.joblib
\* is present under the same path, and that scaler.joblib is present there
\* whenever the manifest names a scaler location; the manifest is always
\* the last object written.
C29_ManifestImpliesArtifacts ==
    /\ "manifest.json" \in bucket
         => /\ "model.joblib" \in bucket
            /\ "model" \in manifest.artifacts
            /\ "scaler" \in manifest.artifacts => "scaler.joblib" \in bucket
    /\ last.op = "export_model"
         => /\ \A i \in 1..Len(UploadedBlobs) :
                  UploadedBlobs[i] = "manifest.json"
                    => i = Len(UploadedBlobs)
            /\ last.outcome = "ok"
                 => /\ UploadedBlobs # <<>>
                    /\ UploadedBlobs[Len(UploadedBlobs)] = "manifest.json"
                    /\ Range(UploadedBlobs) \subseteq bucket

\* C29 witness: an export that failed on its manifest upload has left its
\* model and scaler blobs under the path of an earlier complete export,
\* whose manifest is still there
C29_Witness ==
    /\ last.op = "export_model"
    /\ last.outcome = "error"
    /\ UploadedBlobs = <<"model.joblib", "scaler.joblib">>
    /\ bucket = {"model.joblib", "scaler.joblib", "manifest.json"}
    /\ manifest # NoManifest

====
